---- MODULE Spec2Model ----
(***************************************************************************)
(* A model of the automation core of rf_win: the two cache stores          *)
(* (utils/cache.py, utils/cache_manager.py), the polling loop              *)
(* (utils/wait_strategy.py), the element resolution of ControlService      *)
(* (services/control_service.py) and the two factories                     *)
(* (drivers/automation_driver.py, backend/backend_factory.py).             *)
(*                                                                         *)
(* Time is an integer clock `now`.  In the cache and resolution parts one  *)
(* unit of `now` is one second; in the polling part the unit is a fraction *)
(* of a second that divides the timeout and the interval considered.       *)
(***************************************************************************)
EXTENDS Integers, Sequences, FiniteSets, TLC

VARIABLES
    now,          \* time.time() / datetime.now()
    nTicks,       \* number of clock advances made by Tick
    storeKind,    \* which cache store class this run exercises
    max_size,     \* ControlCache._max_size / CacheManager.max_size
    ccache,       \* ControlCache._cache : insertion-ordered dict, as a sequence
    mcache,       \* CacheManager._cache : insertion-ordered dict, as a sequence
    storeLog,     \* history: the set() calls made on the store since construction
    storePure,    \* history: only set() calls with pairwise distinct keys so far
    storeBook,    \* history: whether the caller keeps a book of the stored keys in the order
                  \* it inserted them, and that book
    storeLast,    \* history: the last call on the store; of a set or a get also what it found and returned
    wPc,          \* WaitStrategy._wait_until: where the call is
    wTimeout,     \* its timeout argument
    wInterval,    \* its interval argument
    wStart,       \* its start_time
    wPred,        \* the condition_func it was given
    wDurCap,      \* the longest one condition_func() call takes
    wJitCap,      \* the longest time.sleep() oversleeps
    wPolls,       \* history: number of condition_func() calls made
    wLast,        \* history: outcome of the last condition_func() call
    wLeadRaises,  \* history: number of leading calls that raised
    wTrueAt,      \* history: number of the first call that returned true, 0 if none
    svcCache,     \* ControlService._cache : the store behind find_element
    svcValid,     \* the element handles for which driver.is_element_valid is true
    svcNative,    \* number of driver.find_element calls made so far
    svcCalls,     \* number of ControlService.find_element calls made so far
    svcLast,      \* history: the last ControlService.find_element call
    bkReadyAt,    \* fake backend: the invocation of find_element that yields a handle
    bkFail,       \* fake backend: how the other invocations fail
    svcAlt,       \* the second argument triple this run calls find_element with
    fKind,        \* which factory class this run exercises
    fDrivers,     \* DriverFactory._drivers / BackendFactory._backends : name -> instance
    fDefault,     \* DriverFactory._default_driver / BackendFactory._default_backend
    fInstances,   \* number of driver / backend objects constructed so far
    fConstructed, \* history: per name, how many drivers the factory constructed for it
    fReturned,    \* history: per name, the instances returned to requests for that name
    fLast,        \* history: the last factory call, the state it found and its result
    lWord,        \* the locator string given to the parsers: its leading word ...
    lTail,        \* ... and the rest of it
    lHelper,      \* what LocatorHelper.parse_locator returned or raised for it
    lWindow,      \* what PywinautoWindow._parse_locator returned for it
    dDpi,         \* user32.GetDpiForSystem() as read by DPIAdapter.__init__
    dLogical,     \* the logical coordinate pair given to adapt_coordinate
    dPhysical,    \* what adapt_coordinate returned for it, <<>> before the call
    dReversed,    \* what reverse_coordinate returned for dPhysical, <<>> before the call
    aLast,        \* history: the last click or type operation and how it ended
    pApps,        \* ApplicationService._applications : insertion-ordered dict, as a sequence
    pCurrent,     \* ApplicationService._current_app_alias, "" for None
    pMade,        \* number of application objects the driver has returned
    pLast,        \* history: the last ApplicationService call, what it was asked to close
    kHeap,        \* per memory address, the native window the parent object living there wraps
    kLog,         \* history: the find_element calls made, their arguments and cache keys
    rApps,        \* RFWinLibrary._applications : app_id -> application object, as a sequence
    rMade,        \* number of application objects the backends have created
    rLast,        \* history: the last RFWinLibrary application keyword and what it replaced
    bPc           \* where a PywinautoOperation.wait_until call made beside _wait_until is

storeVars == <<storeKind, max_size, ccache, mcache, storeLog, storePure, storeLast, storeBook>>
clockVars == <<now, nTicks>>
svcVars == <<svcCache, svcValid, svcNative, svcCalls, svcLast, bkReadyAt, bkFail, svcAlt>>
locVars == <<lWord, lTail, lHelper, lWindow>>
dpiVars == <<dDpi, dLogical, dPhysical, dReversed>>
appVars == <<pApps, pCurrent, pMade, pLast>>
keyVars == <<kHeap, kLog>>
libVars == <<rApps, rMade, rLast>>
cmpVars == <<bPc>>
newVars == <<keyVars, libVars, cmpVars>>
extVars == <<locVars, dpiVars, aLast, appVars, newVars>>
factVars == <<fKind, fDrivers, fDefault, fInstances, fConstructed, fReturned, fLast>>
waitVars == <<wPc, wTimeout, wInterval, wStart, wPred, wDurCap, wJitCap,
              wPolls, wLast, wLeadRaises, wTrueAt>>

(***************************************************************************)
(* Bounds of the model.                                                    *)
(***************************************************************************)
MaxCap == 2          \* largest capacity a store is constructed with
MaxTicks == 2        \* clock advances per behaviour
MaxTimeout == 10     \* largest timeout of a wait, in clock units
MaxInterval == 2     \* largest poll interval of a wait, in clock units
MaxPredDur == 1      \* longest duration of one predicate call
MaxJitter == 1       \* longest oversleep of one time.sleep()
SvcCap == 1          \* capacity of the store behind ControlService.find_element
MaxResolves == 3     \* ControlService.find_element calls per behaviour of the resolution part
MaxReadyAt == 4      \* latest invocation at which the fake backend yields a handle
MaxInstances == 3    \* driver / backend objects constructed per behaviour
MaxTail == 3         \* characters of a locator string after its leading word
MaxCoord == 8        \* largest absolute value of a coordinate
MaxPasses == 2       \* native search calls one find_elements call has time for
MaxFound == 2        \* elements a native search for many returns
MaxApps == 3         \* applications started per behaviour
MaxKeyCalls == 3     \* find_element calls whose cache keys one behaviour compares

\* One more key than the largest capacity, so that capacity + 1 distinct keys exist.
StoreKeys == 1..(MaxCap + 1)
\* The values stored: any object that is not None.
StoreVals == {1}

\* Python's None.
None == 0

\* Default expiry of the two classes, in seconds.
ControlCache_default_expire_time == 30
CacheManager_default_expire_time == 10

\* expire_time arguments offered to set(): None (use the default) or one second.
ShortTtl == 1
TtlArgs == {None, ShortTtl}

\* expire_time arguments offered to update_expire_time(): no time at all, or
\* the default of the class.
UpdateTtlArgs == {0, CacheManager_default_expire_time}

\* The key update_expire_time() is called with.  No method looks at what a key
\* is, only at whether two keys are equal, so one key stands for each of them.
UpdateKeys == {1}

\* The clock advances one second at a time: an item set with ShortTtl is at its
\* limit after one advance and expired after two.
TickSteps == {1}

(***************************************************************************)
(* A Python dict keeps insertion order; assigning to a key that is present *)
(* keeps the key's position.  A dict is a sequence of items with a `key`.  *)
(***************************************************************************)
DictKeys(d) == {d[i].key : i \in 1..Len(d)}

DictIndex(d, k) == CHOOSE i \in 1..Len(d) : d[i].key = k

DictGet(d, k) == d[DictIndex(d, k)]

DictPut(d, item) ==
    IF item.key \in DictKeys(d)
    THEN [d EXCEPT ![DictIndex(d, item.key)] = item]
    ELSE Append(d, item)

DictDel(d, k) == SelectSeq(d, LAMBDA it : it.key # k)

(***************************************************************************)
(* utils/cache.py : CacheItem and ControlCache.                            *)
(* An item is [key, value, expire_time], expire_time the absolute instant  *)
(* datetime.now() + timedelta(seconds = expire_time) taken at creation.    *)
(***************************************************************************)
CC_CacheItem(k, v, expire_time, t) == [key |-> k, value |-> v, expire_time |-> t + expire_time]

CC_is_expired(item, t) == t > item.expire_time

CC_cleanup_expired(cache, t) == SelectSeq(cache, LAMBDA it : ~CC_is_expired(it, t))

\* ControlCache.get: [ret, cache]
ControlCache_get(cache, k, t) ==
    IF k \in DictKeys(cache)
    THEN IF ~CC_is_expired(DictGet(cache, k), t)
         THEN [ret |-> DictGet(cache, k).value, cache |-> cache]
         ELSE [ret |-> None, cache |-> DictDel(cache, k)]
    ELSE [ret |-> None, cache |-> cache]

\* The eviction step of ControlCache.set (lines 74-80): the dict after it, or
\* "StopIteration" when next(iter(...)) is taken of an empty dict.
CC_make_room(cache, cap, t) ==
    IF Len(cache) >= cap
    THEN LET cleaned == CC_cleanup_expired(cache, t)
         IN IF Len(cleaned) >= cap
            THEN IF Len(cleaned) = 0 THEN "StopIteration" ELSE Tail(cleaned)
            ELSE cleaned
    ELSE cache

\* A set() that loses the eviction step.
ControlCache_set_NoEvict(cache, cap, k, v, expire_time, t) ==
    [raised |-> FALSE,
     cache |-> DictPut(cache, CC_CacheItem(k, v,
                  IF expire_time = None THEN ControlCache_default_expire_time ELSE expire_time, t))]

\* ControlCache.set: [raised, cache]
ControlCache_set(cache, cap, k, v, expire_time, t) ==
    LET et == IF expire_time = None THEN ControlCache_default_expire_time ELSE expire_time
        room == CC_make_room(cache, cap, t)
    IN IF room = "StopIteration"
       THEN [raised |-> TRUE, cache |-> cache]
       ELSE [raised |-> FALSE, cache |-> DictPut(room, CC_CacheItem(k, v, et, t))]

ControlCache_remove(cache, k) == DictDel(cache, k)

ControlCache_clear(cache) == <<>>

(***************************************************************************)
(* utils/cache_manager.py : CacheItem and CacheManager.                    *)
(* An item is [key, value, expire_time, created_time], expire_time being   *)
(* the time to live in seconds.                                            *)
(***************************************************************************)
CM_CacheItem(k, v, expire_time, t) ==
    [key |-> k, value |-> v, expire_time |-> expire_time, created_time |-> t]

\* An is_expired() that measures against the default expiry of the class.
CM_is_expired_AgainstDefault(item, t) ==
    t - item.created_time > CacheManager_default_expire_time

CM_is_expired(item, t) == t - item.created_time > item.expire_time

CM_clean_expired(cache, t) == SelectSeq(cache, LAMBDA it : ~CM_is_expired(it, t))

\* min(items, key = created_time): the first item, in dict order, of least created_time.
CM_oldest_key(cache) ==
    LET i == CHOOSE i \in 1..Len(cache) :
                 /\ \A j \in 1..Len(cache) : cache[i].created_time <= cache[j].created_time
                 /\ \A j \in 1..(i - 1) : cache[j].created_time > cache[i].created_time
    IN cache[i].key

CacheManager_remove_oldest(cache, t) ==
    IF Len(cache) = 0 THEN cache
    ELSE LET cleaned == CM_clean_expired(cache, t)
         IN IF Len(cleaned) = 0 THEN cleaned
            ELSE DictDel(cleaned, CM_oldest_key(cleaned))

\* A set() that makes room only when the store is above its capacity.
CacheManager_set_ChecksAbove(cache, cap, k, v, expire_time, t) ==
    LET et == IF expire_time = None THEN CacheManager_default_expire_time ELSE expire_time
        room == IF Len(cache) > cap THEN CacheManager_remove_oldest(cache, t) ELSE cache
    IN DictPut(room, CM_CacheItem(k, v, et, t))

CacheManager_set(cache, cap, k, v, expire_time, t) ==
    LET et == IF expire_time = None THEN CacheManager_default_expire_time ELSE expire_time
        room == IF Len(cache) >= cap THEN CacheManager_remove_oldest(cache, t) ELSE cache
    IN DictPut(room, CM_CacheItem(k, v, et, t))

\* CacheManager.get: [ret, cache]
CacheManager_get(cache, k, t) ==
    IF k \notin DictKeys(cache)
    THEN [ret |-> None, cache |-> cache]
    ELSE IF CM_is_expired(DictGet(cache, k), t)
         THEN [ret |-> None, cache |-> DictDel(cache, k)]
         ELSE [ret |-> DictGet(cache, k).value, cache |-> cache]

\* CacheManager.exists: [ret, cache]
CacheManager_exists(cache, k, t) ==
    IF k \notin DictKeys(cache)
    THEN [ret |-> FALSE, cache |-> cache]
    ELSE IF CM_is_expired(DictGet(cache, k), t)
         THEN [ret |-> FALSE, cache |-> DictDel(cache, k)]
         ELSE [ret |-> TRUE, cache |-> cache]

\* CacheManager.get_size: [ret, cache]
CacheManager_get_size(cache, t) ==
    [ret |-> Len(CM_clean_expired(cache, t)), cache |-> CM_clean_expired(cache, t)]

\* CacheManager.get_keys: [ret, cache]; ret is the list of keys
CacheManager_get_keys(cache, t) ==
    LET cleaned == CM_clean_expired(cache, t)
    IN [ret |-> [i \in 1..Len(cleaned) |-> cleaned[i].key], cache |-> cleaned]

\* CacheManager.update_expire_time: [ret, cache]
CacheManager_update_expire_time(cache, k, expire_time) ==
    IF k \notin DictKeys(cache)
    THEN [ret |-> FALSE, cache |-> cache]
    ELSE [ret |-> TRUE,
          cache |-> DictPut(cache, [DictGet(cache, k) EXCEPT !.expire_time = expire_time])]

CacheManager_remove(cache, k) == DictDel(cache, k)

CacheManager_clear(cache) == <<>>

(***************************************************************************)
(* The cache store as a state machine: one store of either class, driven   *)
(* by its public methods, with the clock advancing between calls.          *)
(***************************************************************************)
StoreKinds == {"ControlCache", "CacheManager"}

\* No book is kept.
NoBook == [kept |-> FALSE, keys |-> <<>>]

NoCall ==
    [op |-> "none", key |-> None, ret |-> None, found |-> "unasked", ttl |-> 0, full |-> FALSE]

IdleStore ==
    /\ storeKind = "none"
    /\ max_size = 0
    /\ ccache = <<>>
    /\ mcache = <<>>
    /\ storeLog = <<>>
    /\ storePure = FALSE
    /\ storeLast = NoCall
    /\ storeBook = NoBook

\* ControlCache.__init__ / CacheManager.__init__
InitStore ==
    /\ storeKind \in StoreKinds
    /\ max_size \in 1..MaxCap
    /\ ccache = <<>>
    /\ mcache = <<>>
    /\ storeLog = <<>>
    /\ storePure = TRUE
    /\ storeLast = NoCall
    /\ storeBook = NoBook

\* The time to live an item is created with.
EffectiveTtl(e) ==
    IF e # None THEN e
    ELSE IF storeKind = "ControlCache" THEN ControlCache_default_expire_time
         ELSE CacheManager_default_expire_time

\* The store's dict, whichever class it is.
Store == IF storeKind = "ControlCache" THEN ccache ELSE mcache

\* The store's dict after the call being made.
StoreAfter == IF storeKind = "ControlCache" THEN ccache' ELSE mcache'

\* The entry has outlived its time to live at t: more time has passed since
\* the set() that made it than the time to live it has now.
Outlived(item, t) ==
    IF storeKind = "ControlCache" THEN t > item.expire_time
    ELSE t - item.created_time > item.expire_time

\* What a caller finds under k at t: nothing, or an entry alive or expired.
Found(k, t) ==
    IF k \notin DictKeys(Store) THEN "absent"
    ELSE IF Outlived(DictGet(Store, k), t) THEN "expired" ELSE "alive"

\* The record of a call.  Of a set or a get: the key, what was returned and
\* what was under the key when the call was made; of a get in a CacheManager
\* also the time to live of that entry; of a set also whether the dict was at
\* capacity.  Of any other call: that it was made.
Called(op, k, ret) ==
    IF op \notin {"set", "get"}
    THEN [op |-> "other", key |-> None, ret |-> None, found |-> "unasked", ttl |-> 0, full |-> FALSE]
    ELSE [op |-> op, key |-> k, ret |-> ret,
          found |-> Found(k, now),
          ttl |-> IF op = "get" /\ storeKind = "CacheManager" /\ k \in DictKeys(mcache)
                  THEN DictGet(mcache, k).expire_time ELSE 0,
          full |-> op = "set" /\ Len(Store) >= max_size]

\* The caller's book after a call that was no set(): the keys the store still
\* holds, in the order the caller inserted them.
BookKept ==
    [storeBook EXCEPT !.keys = SelectSeq(@, LAMBDA j : j \in DictKeys(StoreAfter))]

\* The book after set(k, ...): a key that is stored and alive is overwritten
\* and keeps its place, any other key is a new insertion.
BookSet(k) ==
    IF ~storeBook.kept THEN storeBook
    ELSE IF Found(k, now) = "alive" THEN BookKept
    ELSE [BookKept EXCEPT !.keys = Append(SelectSeq(@, LAMBDA j : j # k), k)]

\* History kept while only set() calls with distinct keys have been made.
LogSet(k, e) ==
    /\ storeBook' = BookSet(k)
    /\ IF storePure /\ k \notin {storeLog[i].key : i \in 1..Len(storeLog)}
       THEN /\ storePure' = TRUE
            /\ storeLog' = Append(storeLog, [key |-> k, created |-> now, ttl |-> EffectiveTtl(e)])
       ELSE /\ storePure' = FALSE
            /\ storeLog' = <<>>

LogOther ==
    /\ storeBook' = BookKept
    /\ storePure' = FALSE
    /\ storeLog' = <<>>

Tick(d) ==
    /\ nTicks < MaxTicks
    /\ now' = now + d
    /\ nTicks' = nTicks + 1

CC_Set(k, v, e) ==
    /\ storeKind = "ControlCache"
    /\ LET r == ControlCache_set(ccache, max_size, k, v, e, now)
       IN /\ ccache' = r.cache
          /\ storeLast' = Called("set", k, IF r.raised THEN "raised" ELSE None)
    /\ LogSet(k, e)
    /\ UNCHANGED <<storeKind, max_size, mcache>>

CC_Get(k) ==
    /\ storeKind = "ControlCache"
    /\ LET r == ControlCache_get(ccache, k, now)
       IN /\ ccache' = r.cache
          /\ storeLast' = Called("get", k, r.ret)
    /\ LogOther
    /\ UNCHANGED <<storeKind, max_size, mcache>>

CC_Remove(k) ==
    /\ storeKind = "ControlCache"
    /\ ccache' = ControlCache_remove(ccache, k)
    /\ storeLast' = Called("remove", k, None)
    /\ LogOther
    /\ UNCHANGED <<storeKind, max_size, mcache>>

CC_Clear ==
    /\ storeKind = "ControlCache"
    /\ ccache' = ControlCache_clear(ccache)
    /\ storeLast' = Called("clear", None, None)
    /\ LogOther
    /\ UNCHANGED <<storeKind, max_size, mcache>>

CM_Set(k, v, e) ==
    /\ storeKind = "CacheManager"
    /\ mcache' = CacheManager_set(mcache, max_size, k, v, e, now)
    /\ storeLast' = Called("set", k, None)
    /\ LogSet(k, e)
    /\ UNCHANGED <<storeKind, max_size, ccache>>

CM_Get(k) ==
    /\ storeKind = "CacheManager"
    /\ LET r == CacheManager_get(mcache, k, now)
       IN /\ mcache' = r.cache
          /\ storeLast' = Called("get", k, r.ret)
    /\ LogOther
    /\ UNCHANGED <<storeKind, max_size, ccache>>

CM_Remove(k) ==
    /\ storeKind = "CacheManager"
    /\ mcache' = CacheManager_remove(mcache, k)
    /\ storeLast' = Called("remove", k, k \in DictKeys(mcache))
    /\ LogOther
    /\ UNCHANGED <<storeKind, max_size, ccache>>

CM_Clear ==
    /\ storeKind = "CacheManager"
    /\ mcache' = CacheManager_clear(mcache)
    /\ storeLast' = Called("clear", None, None)
    /\ LogOther
    /\ UNCHANGED <<storeKind, max_size, ccache>>

CM_Exists(k) ==
    /\ storeKind = "CacheManager"
    /\ LET r == CacheManager_exists(mcache, k, now)
       IN /\ mcache' = r.cache
          /\ storeLast' = Called("exists", k, r.ret)
    /\ LogOther
    /\ UNCHANGED <<storeKind, max_size, ccache>>

CM_GetSize ==
    /\ storeKind = "CacheManager"
    /\ LET r == CacheManager_get_size(mcache, now)
       IN /\ mcache' = r.cache
          /\ storeLast' = Called("get_size", None, r.ret)
    /\ LogOther
    /\ UNCHANGED <<storeKind, max_size, ccache>>

CM_GetKeys ==
    /\ storeKind = "CacheManager"
    /\ LET r == CacheManager_get_keys(mcache, now)
       IN /\ mcache' = r.cache
          /\ storeLast' = Called("get_keys", None, r.ret)
    /\ LogOther
    /\ UNCHANGED <<storeKind, max_size, ccache>>

CM_UpdateExpireTime(k, e) ==
    /\ storeKind = "CacheManager"
    /\ LET r == CacheManager_update_expire_time(mcache, k, e)
       IN /\ mcache' = r.cache
          /\ storeLast' = Called("update_expire_time", k, r.ret)
    /\ LogOther
    /\ UNCHANGED <<storeKind, max_size, ccache>>

(***************************************************************************)
(* utils/wait_strategy.py : WaitStrategy._wait_until, one call.            *)
(*                                                                         *)
(*     start_time = time.time()                              "start"       *)
(*     while time.time() - start_time < timeout:             "test"        *)
(*         try:                                                            *)
(*             if condition_func(): return True              "poll"        *)
(*         except Exception: pass                                          *)
(*         time.sleep(interval)                              "sleep"       *)
(*     return False                                                        *)
(*                                                                         *)
(* The call ends in "Satisfied" (returned True), "TimedOut" (returned      *)
(* False) or "Raised" (an exception left the call).                        *)
(***************************************************************************)
WaitTerminal == {"Satisfied", "TimedOut", "Raised"}

\* What one condition_func() call does: return a truthy value, a falsy one, or raise.
PollOutcomes == {"true", "false", "raise"}

\* The predicates a wait is given: one that may do anything at each call, and
\* the constant-false one.
WaitPreds == {"any", "false"}

OutcomesOf(pred) == IF pred = "false" THEN {"false"} ELSE PollOutcomes

\* The loop test that also lets the loop run at elapsed = timeout.
WaitLoopCond_Inclusive(t, start, timeout) == t - start <= timeout

\* line 171
WaitLoopCond(t, start, timeout) == t - start < timeout

\* The loop body without its try/except.
WaitAfterPoll_Propagate(outcome) ==
    CASE outcome = "true" -> "Satisfied"
      [] outcome = "false" -> "sleep"
      [] outcome = "raise" -> "Raised"

\* The loop body that goes on polling after a true result.
WaitAfterPoll_KeepPolling(outcome) == "sleep"

\* lines 172-177: where the call goes after condition_func() ended with `outcome`.
WaitAfterPoll(outcome) ==
    CASE outcome = "true" -> "Satisfied"
      [] outcome = "false" -> "sleep"
      [] outcome = "raise" -> "sleep"

IdleWait ==
    /\ wPc = "idle"
    /\ wTimeout = 0
    /\ wInterval = 0
    /\ wStart = 0
    /\ wPred = "none"
    /\ wDurCap = 0
    /\ wJitCap = 0
    /\ wPolls = 0
    /\ wLast = "none"
    /\ wLeadRaises = 0
    /\ wTrueAt = 0

\* The arguments of the call and the timing of its environment.
InitWaitWith(timeouts, intervals, preds) ==
    /\ wPc = "start"
    /\ wTimeout \in timeouts
    /\ wInterval \in intervals
    /\ wStart = 0
    /\ wPred \in preds
    /\ wDurCap \in 0..MaxPredDur
    /\ wJitCap \in 0..MaxJitter
    /\ wPolls = 0
    /\ wLast = "none"
    /\ wLeadRaises = 0
    /\ wTrueAt = 0

\* line 169
WaitStart ==
    /\ wPc = "start"
    /\ wStart' = now
    /\ wPc' = "test"
    /\ UNCHANGED <<now, wTimeout, wInterval, wPred, wDurCap, wJitCap,
                   wPolls, wLast, wLeadRaises, wTrueAt>>

\* line 171, and line 180 when the test fails
WaitTest ==
    /\ wPc = "test"
    /\ wPc' = IF WaitLoopCond(now, wStart, wTimeout) THEN "poll" ELSE "TimedOut"
    /\ UNCHANGED <<now, wTimeout, wInterval, wStart, wPred, wDurCap, wJitCap,
                   wPolls, wLast, wLeadRaises, wTrueAt>>

\* The bookkeeping of one condition_func() call that took d and ended with `outcome`.
WaitPolled(outcome, d) ==
    /\ now' = now + d
    /\ wPc' = WaitAfterPoll(outcome)
    /\ wPolls' = wPolls + 1
    /\ wLast' = outcome
    /\ wLeadRaises' = IF outcome = "raise" /\ wLeadRaises = wPolls
                      THEN wLeadRaises + 1 ELSE wLeadRaises
    /\ wTrueAt' = IF outcome = "true" /\ wTrueAt = 0 THEN wPolls + 1 ELSE wTrueAt
    /\ UNCHANGED <<wTimeout, wInterval, wStart, wPred, wDurCap, wJitCap>>

\* lines 172-177 with an arbitrary predicate
WaitPoll ==
    /\ wPc = "poll"
    /\ \E outcome \in OutcomesOf(wPred), d \in 0..wDurCap : WaitPolled(outcome, d)

\* RFWinLibrary.wait_until that takes an attempt that raised nothing for a success.
RFWinLibrary_wait_until_after_NoRaiseSucceeds(outcome) ==
    CASE outcome = "true" -> "Satisfied"
      [] outcome = "false" -> "Satisfied"
      [] outcome = "raise" -> "sleep"

\* RFWinLibrary.wait_until (__init__.py lines 1576-1610), lines 1599-1607:
\* where the call goes after builtin.run_keyword ended with `outcome`, a
\* truthy result, a falsy one or an exception.  Its start, loop test and sleep
\* (lines 1596, 1598, 1607) are those of _wait_until.
RFWinLibrary_wait_until_after(outcome) ==
    CASE outcome = "true" -> "Satisfied"
      [] outcome = "false" -> "sleep"
      [] outcome = "raise" -> "sleep"

\* One run_keyword attempt of RFWinLibrary.wait_until.
KW_Attempt ==
    /\ wPc = "poll"
    /\ \E outcome \in PollOutcomes, d \in 0..wDurCap :
          /\ now' = now + d
          /\ wPc' = RFWinLibrary_wait_until_after(outcome)
          /\ wPolls' = wPolls + 1
          /\ wLast' = outcome
          /\ wLeadRaises' = IF outcome = "raise" /\ wLeadRaises = wPolls
                            THEN wLeadRaises + 1 ELSE wLeadRaises
          /\ wTrueAt' = IF outcome = "true" /\ wTrueAt = 0 THEN wPolls + 1 ELSE wTrueAt
    /\ UNCHANGED <<wTimeout, wInterval, wStart, wPred, wDurCap, wJitCap>>

\* line 178
WaitSleep ==
    /\ wPc = "sleep"
    /\ \E j \in 0..wJitCap : now' = now + wInterval + j
    /\ wPc' = "test"
    /\ UNCHANGED <<wTimeout, wInterval, wStart, wPred, wDurCap, wJitCap,
                   wPolls, wLast, wLeadRaises, wTrueAt>>

(***************************************************************************)
(* services/control_service.py : ControlService.find_element.              *)
(*                                                                         *)
(* find_element reads and writes self._cache through get(key) and          *)
(* set(key, value, ttl = 300).  ControlService.__init__ does not create    *)
(* that attribute and no class of the repository has a set() taking `ttl`, *)
(* so the store behind it is modelled from the design's Cache Store: a     *)
(* time-boxed key -> value map of bounded capacity; an insertion beyond    *)
(* capacity first purges the expired items and then, if still at capacity, *)
(* evicts the oldest-inserted one.                                         *)
(***************************************************************************)
SvcStore_fresh(item, t) == t - item.insertedAt <= item.ttl

SvcStore_get(cache, k, t) ==
    IF k \notin DictKeys(cache)
    THEN [ret |-> None, cache |-> cache]
    ELSE IF SvcStore_fresh(DictGet(cache, k), t)
         THEN [ret |-> DictGet(cache, k).value, cache |-> cache]
         ELSE [ret |-> None, cache |-> DictDel(cache, k)]

SvcStore_set(cache, k, v, ttl, t) ==
    LET item == [key |-> k, value |-> v, insertedAt |-> t, ttl |-> ttl]
        purged == SelectSeq(cache, LAMBDA it : SvcStore_fresh(it, t))
    IN IF k \in DictKeys(cache) THEN DictPut(cache, item)
       ELSE IF Len(cache) < SvcCap THEN Append(cache, item)
       ELSE IF Len(purged) < SvcCap THEN Append(purged, item)
       ELSE Append(Tail(purged), item)

\* What the store holds under k at time t, without changing it: the value of
\* an item that is present and fresh, None otherwise.
SvcHeld(cache, k, t) == SvcStore_get(cache, k, t).ret

\* The arguments of find_element: parent objects, locator strings, timeouts.
SvcParents == {"window1", "window2"}
SvcLocators == {"id=ok", "name=user"}
SvcTimeouts == {10, 5}

\* id(parent), as text
IdStr(parent) == IF parent = "window1" THEN "140001" ELSE "140002"

\* str(timeout) of a float
TimeoutStr(timeout) == IF timeout = 10 THEN "10.0" ELSE "5.0"

\* line 363: f"{id(parent)}:{str(locator)}:{timeout}"
cache_key(parent, locator, timeout) ==
    IdStr(parent) \o ":" \o locator \o ":" \o TimeoutStr(timeout)

\* The calls the model makes: a base call and, in each run, one call that
\* differs from it in one argument.
SvcBaseArgs == <<"window1", "id=ok", 10>>
SvcAltArgs == { <<"window2", "id=ok", 10>>, <<"window1", "name=user", 10>>, <<"window1", "id=ok", 5>> }
SvcCallArgs == {SvcBaseArgs, svcAlt}

\* What one driver.find_element call does: return a new element object,
\* return None (UIAutomationDriver after its timeout), or raise.
NativeOutcomes == {"handle", "none", "raise"}

\* drivers/automation_driver.py lines 392-397 and 594-599: element.exists(),
\* False when it raises.
is_element_valid(element, valid) == element \in valid

\* Python truthiness of what the store returned.
Truthy(x) == x # None

\* line 373: ttl = 300
find_element_ttl == 300

\* find_element without the cache lookup: it always searches.
ControlService_find_element_AlwaysSearch(cache, key, t, valid, outcome, fresh) ==
    IF outcome = "raise"
    THEN [ret |-> None, raised |-> TRUE, cache |-> cache, native |-> 1]
    ELSE LET element == IF outcome = "none" THEN None ELSE fresh
         IN [ret |-> element, raised |-> FALSE, native |-> 1,
             cache |-> SvcStore_set(cache, key, element, find_element_ttl, t)]

\* find_element without the validity check of the cached element.
ControlService_find_element_NoValidityCheck(cache, key, t, valid, outcome, fresh) ==
    LET got == SvcStore_get(cache, key, t)
    IN IF Truthy(got.ret)
       THEN [ret |-> got.ret, raised |-> FALSE, cache |-> got.cache, native |-> 0]
       ELSE ControlService_find_element_AlwaysSearch(got.cache, key, t, valid, outcome, fresh)

\* find_element that returns whatever the store has under the key, a stored
\* None included, and searches only when the key is absent.
ControlService_find_element_TrustsStore(cache, key, t, valid, outcome, fresh) ==
    LET got == SvcStore_get(cache, key, t)
    IN IF key \in DictKeys(got.cache)
       THEN [ret |-> got.ret, raised |-> FALSE, cache |-> got.cache, native |-> 0]
       ELSE ControlService_find_element_AlwaysSearch(got.cache, key, t, valid, outcome, fresh)

\* find_element that stores only an element, never the None of a search
\* that found nothing.
ControlService_find_element_StoresOnlyFound(cache, key, t, valid, outcome, fresh) ==
    LET got == SvcStore_get(cache, key, t)
        cached_element == got.ret
    IN IF Truthy(cached_element) /\ is_element_valid(cached_element, valid)
       THEN [ret |-> cached_element, raised |-> FALSE, cache |-> got.cache, native |-> 0]
       ELSE IF outcome \in {"raise", "none"}
            THEN [ret |-> None, raised |-> (outcome = "raise"), cache |-> got.cache,
                  native |-> 1]
            ELSE [ret |-> fresh, raised |-> FALSE, native |-> 1,
                  cache |-> SvcStore_set(got.cache, key, fresh, find_element_ttl, t)]

\* find_element that stores with the default expire time of the element cache.
ControlService_find_element_DefaultTtl(cache, key, t, valid, outcome, fresh) ==
    LET got == SvcStore_get(cache, key, t)
        cached_element == got.ret
    IN IF Truthy(cached_element) /\ is_element_valid(cached_element, valid)
       THEN [ret |-> cached_element, raised |-> FALSE, cache |-> got.cache, native |-> 0]
       ELSE IF outcome = "raise"
            THEN [ret |-> None, raised |-> TRUE, cache |-> got.cache, native |-> 1]
            ELSE LET element == IF outcome = "none" THEN None ELSE fresh
                 IN [ret |-> element, raised |-> FALSE, native |-> 1,
                     cache |-> SvcStore_set(got.cache, key, element,
                                            CacheManager_default_expire_time, t)]

\* find_element that searches a second time when the search failed, and
\* keeps the failure of the second search to itself.
ControlService_find_element_RetriesOnce(cache, key, t, valid, outcome, fresh) ==
    LET got == SvcStore_get(cache, key, t)
        cached_element == got.ret
    IN IF Truthy(cached_element) /\ is_element_valid(cached_element, valid)
       THEN [ret |-> cached_element, raised |-> FALSE, cache |-> got.cache, native |-> 0]
       ELSE IF outcome \in {"raise", "none"}
            THEN [ret |-> None, raised |-> FALSE, cache |-> got.cache, native |-> 2]
            ELSE [ret |-> fresh, raised |-> FALSE, native |-> 1,
                  cache |-> SvcStore_set(got.cache, key, fresh, find_element_ttl, t)]

\* lines 362-376.  `outcome` is what the driver's find_element does if it is
\* called and `fresh` the element it then returns.  The result is
\* [ret, raised, cache, native]: the value returned, whether an exception
\* left the call, the store afterwards, and the number of driver.find_element
\* calls made.
ControlService_find_element(cache, key, t, valid, outcome, fresh) ==
    LET got == SvcStore_get(cache, key, t)
        cached_element == got.ret
    IN IF Truthy(cached_element) /\ is_element_valid(cached_element, valid)
       THEN [ret |-> cached_element, raised |-> FALSE, cache |-> got.cache, native |-> 0]
       ELSE IF outcome = "raise"
            THEN [ret |-> None, raised |-> TRUE, cache |-> got.cache, native |-> 1]
            ELSE LET element == IF outcome = "none" THEN None ELSE fresh
                 IN [ret |-> element, raised |-> FALSE, native |-> 1,
                     cache |-> SvcStore_set(got.cache, key, element, find_element_ttl, t)]

NoResolve ==
    [key |-> "", held |-> None, heldValid |-> FALSE, ret |-> None, raised |-> FALSE, native |-> 0]

IdleSvc ==
    /\ svcCache = <<>>
    /\ svcValid = {}
    /\ svcNative = 0
    /\ svcCalls = 0
    /\ svcLast = NoResolve
    /\ bkReadyAt = 0
    /\ bkFail = "none"
    /\ svcAlt = SvcBaseArgs

\* The bookkeeping of one find_element call with arguments `args` and the driver
\* behaving as `outcome`; an element the driver returns is valid when returned.
Resolved(args, outcome) ==
    LET key == cache_key(args[1], args[2], args[3])
        fresh == svcNative + 1
        r == ControlService_find_element(svcCache, key, now, svcValid, outcome, fresh)
        held == SvcHeld(svcCache, key, now)
    IN /\ svcCache' = r.cache
       /\ svcNative' = svcNative + r.native
       /\ svcCalls' = svcCalls + 1
       /\ svcValid' = IF r.native = 1 /\ outcome = "handle"
                      THEN svcValid \cup {fresh} ELSE svcValid
       /\ svcLast' = [key |-> key, held |-> held, heldValid |-> held \in svcValid,
                      ret |-> r.ret, raised |-> r.raised, native |-> r.native]

\* One ControlService.find_element call against a driver that may do anything.
Resolve ==
    /\ svcCalls < MaxResolves
    /\ \E args \in SvcCallArgs, outcome \in NativeOutcomes :
          Resolved(args, outcome)
    /\ UNCHANGED <<bkReadyAt, bkFail, svcAlt>>

\* The user interface changes: an element the store holds disappears or comes
\* back (the validity of other elements is never asked for).
SetValidity ==
    /\ \E i \in 1..Len(svcCache), b \in BOOLEAN :
          /\ svcCache[i].value # None
          /\ svcValid' = IF b THEN svcValid \cup {svcCache[i].value}
                         ELSE svcValid \ {svcCache[i].value}
    /\ svcValid' # svcValid
    /\ UNCHANGED <<svcCache, svcNative, svcCalls, svcLast, bkReadyAt, bkFail, svcAlt>>

\* The fake backend: its bkReadyAt-th find_element yields a valid element,
\* every other one fails as bkFail says.
FakeOutcome == IF svcNative + 1 = bkReadyAt THEN "handle" ELSE bkFail

\* The predicate "resolve succeeds": the find_element call returned an element.
ResolveSucceeds(r) ==
    IF r.raised THEN "raise" ELSE IF r.ret = None THEN "false" ELSE "true"

\* One poll of a wait whose predicate is "resolve succeeds" over the fake backend.
ResolvePoll ==
    /\ wPc = "poll"
    /\ Resolved(SvcBaseArgs, FakeOutcome)
    /\ \E d \in 0..wDurCap :
          WaitPolled(ResolveSucceeds([raised |-> svcLast'.raised, ret |-> svcLast'.ret]), d)
    /\ UNCHANGED <<bkReadyAt, bkFail, svcAlt>>

(***************************************************************************)
(* drivers/automation_driver.py : DriverFactory, and                       *)
(* backend/backend_factory.py : BackendFactory.                            *)
(*                                                                         *)
(* The registry is a function from names to instances, 0 for a name that   *)
(* is not registered.  Instances are numbered in the order of their        *)
(* construction.                                                           *)
(***************************************************************************)
FactoryKinds == {"DriverFactory", "BackendFactory"}

\* The names requested and registered.
FNames == {"pywinauto", "uiautomation", "auto", "other"}

\* The name argument left out (None).
NoName == "<None>"

NameArgs == FNames \cup {NoName}

NoInstance == 0

Registered(drivers, name) == name \in FNames /\ drivers[name] # NoInstance

\* A result of a factory call: the instance returned or the exception raised,
\* the registry and the default afterwards, and the number of instances the
\* call constructed.
FReturn(inst, drivers, default) ==
    [ret |-> inst, raised |-> "", drivers |-> drivers, default |-> default, made |-> 0]

FRaise(exc, drivers, default) ==
    [ret |-> NoInstance, raised |-> exc, drivers |-> drivers, default |-> default, made |-> 0]

\* get_driver that falls back to the default driver for a name it does not know.
DriverFactory_get_driver_FallsBack(drivers, default, name, next) ==
    LET n == IF name = NoName THEN default ELSE name
    IN IF n = "auto"
       THEN IF Registered(drivers, "pywinauto") THEN FReturn(drivers["pywinauto"], drivers, default)
            ELSE IF Registered(drivers, "uiautomation")
                 THEN FReturn(drivers["uiautomation"], drivers, default)
                 ELSE FRaise("ValueError", drivers, default)
       ELSE IF Registered(drivers, n) THEN FReturn(drivers[n], drivers, default)
            ELSE IF Registered(drivers, default) THEN FReturn(drivers[default], drivers, default)
                 ELSE FRaise("ValueError", drivers, default)

\* get_driver whose automatic selection tries uiautomation first.
DriverFactory_get_driver_UiaFirst(drivers, default, name, next) ==
    LET n == IF name = NoName THEN default ELSE name
    IN IF n = "auto"
       THEN IF Registered(drivers, "uiautomation")
            THEN FReturn(drivers["uiautomation"], drivers, default)
            ELSE IF Registered(drivers, "pywinauto")
                 THEN FReturn(drivers["pywinauto"], drivers, default)
                 ELSE FRaise("ValueError", drivers, default)
       ELSE IF Registered(drivers, n) THEN FReturn(drivers[n], drivers, default)
            ELSE FRaise("ValueError", drivers, default)

\* get_driver that constructs a driver at every call instead of keeping one.
DriverFactory_get_driver_Constructs(drivers, default, name, next) ==
    LET n == IF name = NoName THEN default ELSE name
    IN IF Registered(drivers, n)
       THEN [ret |-> next, raised |-> "", drivers |-> [drivers EXCEPT ![n] = next],
             default |-> default, made |-> 1]
       ELSE FRaise("ValueError", drivers, default)

\* DriverFactory.get_driver, lines 684-710.  `next` is the number a newly
\* constructed instance would get: the method constructs none.
DriverFactory_get_driver(drivers, default, name, next) ==
    LET n == IF name = NoName THEN default ELSE name
    IN IF n = "auto"
       THEN IF Registered(drivers, "pywinauto") THEN FReturn(drivers["pywinauto"], drivers, default)
            ELSE IF Registered(drivers, "uiautomation")
                 THEN FReturn(drivers["uiautomation"], drivers, default)
                 ELSE FRaise("ValueError", drivers, default)
       ELSE IF ~Registered(drivers, n) THEN FRaise("ValueError", drivers, default)
            ELSE FReturn(drivers[n], drivers, default)

\* DriverFactory.set_default_driver, lines 712-724
DriverFactory_set_default_driver(drivers, default, name) ==
    IF name # "auto" /\ ~Registered(drivers, name)
    THEN FRaise("ValueError", drivers, default)
    ELSE FReturn(NoInstance, drivers, name)

\* BackendFactory.get_backend, lines 78-102
BackendFactory_get_backend(backends, default, name, next) ==
    LET n == IF name = NoName THEN default ELSE name
    IN IF n = "auto"
       THEN IF Registered(backends, "pywinauto")
            THEN FReturn(backends["pywinauto"], backends, default)
            ELSE FRaise("ValueError", backends, default)
       ELSE IF ~Registered(backends, n) THEN FRaise("ValueError", backends, default)
            ELSE FReturn(backends[n], backends, default)

\* BackendFactory.set_default_backend, lines 104-115
BackendFactory_set_default_backend(backends, default, name) ==
    IF ~Registered(backends, name) /\ name # "auto"
    THEN FRaise("ValueError", backends, default)
    ELSE FReturn(NoInstance, backends, name)

\* BackendFactory.register_backend, lines 69-76
BackendFactory_register_backend(backends, name, backend) == [backends EXCEPT ![name] = backend]

NoFactoryCall ==
    [op |-> "none", name |-> NoName, ret |-> NoInstance, raised |-> "",
     pre |-> [drivers |-> [n \in FNames |-> NoInstance], default |-> NoName]]

IdleFactory ==
    /\ fKind = "none"
    /\ fDrivers = [n \in FNames |-> NoInstance]
    /\ fDefault = NoName
    /\ fInstances = 0
    /\ fConstructed = [n \in FNames |-> 0]
    /\ fReturned = [n \in FNames |-> {}]
    /\ fLast = NoFactoryCall

\* DriverFactory.__init__, lines 668-682: a driver is constructed for each
\* library that version_adapter reports available.
InitDriverFactory(pywinauto_available, uiautomation_available) ==
    /\ fKind = "DriverFactory"
    /\ fDrivers = [n \in FNames |->
                      IF n = "pywinauto" /\ pywinauto_available THEN 1
                      ELSE IF n = "uiautomation" /\ uiautomation_available
                           THEN (IF pywinauto_available THEN 2 ELSE 1)
                           ELSE NoInstance]
    /\ fInstances = (IF pywinauto_available THEN 1 ELSE 0) + (IF uiautomation_available THEN 1 ELSE 0)
    /\ fConstructed = [n \in FNames |->
                      IF (n = "pywinauto" /\ pywinauto_available)
                         \/ (n = "uiautomation" /\ uiautomation_available) THEN 1 ELSE 0]
    /\ fDefault = IF pywinauto_available THEN "pywinauto"
                  ELSE IF uiautomation_available THEN "uiautomation" ELSE NoName
    /\ fReturned = [n \in FNames |-> {}]
    /\ fLast = NoFactoryCall

\* BackendFactory.__init__, lines 63-67
InitBackendFactory ==
    /\ fKind = "BackendFactory"
    /\ fDrivers = [n \in FNames |-> NoInstance]
    /\ fInstances = 0
    /\ fConstructed = [n \in FNames |-> 0]
    /\ fDefault = "auto"
    /\ fReturned = [n \in FNames |-> {}]
    /\ fLast = NoFactoryCall

FPre == [drivers |-> fDrivers, default |-> fDefault]

\* The bookkeeping of a get call that ended as r.
FGot(name, r) ==
    /\ fDrivers' = r.drivers
    /\ fDefault' = r.default
    /\ fInstances' = fInstances + r.made
    /\ fConstructed' = IF r.made > 0 /\ name \in FNames
                       THEN [fConstructed EXCEPT ![name] = @ + r.made] ELSE fConstructed
    /\ fReturned' = IF r.raised = "" /\ name \in FNames \ {"auto"}
                    THEN [fReturned EXCEPT ![name] = @ \cup {r.ret}] ELSE fReturned
    /\ fLast' = [op |-> "get", name |-> name, ret |-> r.ret, raised |-> r.raised, pre |-> FPre]
    /\ UNCHANGED fKind

DF_get_driver(name) ==
    /\ fKind = "DriverFactory"
    /\ fInstances < MaxInstances
    /\ FGot(name, DriverFactory_get_driver(fDrivers, fDefault, name, fInstances + 1))

BF_get_backend(name) ==
    /\ fKind = "BackendFactory"
    /\ FGot(name, BackendFactory_get_backend(fDrivers, fDefault, name, fInstances + 1))

FSetDefault(name, r) ==
    /\ fDrivers' = r.drivers
    /\ fDefault' = r.default
    /\ fLast' = [op |-> "set_default", name |-> name, ret |-> NoInstance, raised |-> r.raised,
                 pre |-> FPre]
    /\ UNCHANGED <<fKind, fInstances, fConstructed, fReturned>>

DF_set_default_driver(name) ==
    /\ fKind = "DriverFactory"
    /\ FSetDefault(name, DriverFactory_set_default_driver(fDrivers, fDefault, name))

BF_set_default_backend(name) ==
    /\ fKind = "BackendFactory"
    /\ FSetDefault(name, BackendFactory_set_default_backend(fDrivers, fDefault, name))

\* A caller constructs a backend and registers it; requests made for the name
\* before no longer count as requests for the same registration.
BF_register_backend(name) ==
    /\ fKind = "BackendFactory"
    /\ fInstances < MaxInstances
    /\ fDrivers' = BackendFactory_register_backend(fDrivers, name, fInstances + 1)
    /\ fInstances' = fInstances + 1
    /\ fReturned' = [fReturned EXCEPT ![name] = {}]
    /\ fLast' = [op |-> "register", name |-> name, ret |-> NoInstance, raised |-> "", pre |-> FPre]
    /\ UNCHANGED <<fKind, fDefault, fConstructed>>

(***************************************************************************)
(* utils/locator_helper.py : LocatorHelper.parse_locator, and              *)
(* backend/pywinauto_backend.py : PywinautoWindow._parse_locator.          *)
(*                                                                         *)
(* A string is a sequence of one-character strings.                        *)
(***************************************************************************)
Whitespace == {" "}

\* str.lower on one character, for the letters the inputs use.
LowerChar(c) == IF c = "I" THEN "i" ELSE IF c = "D" THEN "d" ELSE c

\* str.lower
Lower(s) == IF s = <<>> THEN <<>> ELSE [i \in 1..Len(s) |-> LowerChar(s[i])]

\* str.strip
Strip(s) ==
    LET solid == {i \in 1..Len(s) : s[i] \notin Whitespace}
    IN IF solid = {} THEN <<>>
       ELSE LET lo == CHOOSE i \in solid : \A j \in solid : i <= j
                hi == CHOOSE i \in solid : \A j \in solid : j <= i
            IN SubSeq(s, lo, hi)

\* str.find: the index of the first c in s, 0 if there is none
Find(s, c) ==
    IF \E i \in 1..Len(s) : s[i] = c
    THEN CHOOSE i \in 1..Len(s) : s[i] = c /\ \A j \in 1..(i - 1) : s[j] # c
    ELSE 0

\* str.startswith
StartsWith(s, p) == Len(s) >= Len(p) /\ SubSeq(s, 1, Len(p)) = p

\* s[n:]
DropFirst(s, n) == SubSeq(s, n + 1, Len(s))

W_id == <<"i", "d">>
W_name == <<"n", "a", "m", "e">>
W_class == <<"c", "l", "a", "s", "s">>
W_xpath == <<"x", "p", "a", "t", "h">>
W_title == <<"t", "i", "t", "l", "e">>

\* LocatorHelper.LOCATOR_TYPES, lines 11-17
LOCATOR_TYPES ==
    {<<W_id, "automation_id">>, <<W_name, "name">>, <<W_class, "class_name">>,
     <<W_xpath, "xpath">>, <<W_title, "title">>}

LocatorTypeKeys == {e[1] : e \in LOCATOR_TYPES}

BackendKey(t) == (CHOOSE e \in LOCATOR_TYPES : e[1] = t)[2]

LocatorDict(t, v) == [raised |-> "", type |-> t, value |-> v, backend_key |-> BackendKey(t)]

LocatorError == [raised |-> "ValueError", type |-> <<>>, value |-> <<>>, backend_key |-> ""]

\* parse_locator that keeps the value as it was split off.
LocatorHelper_parse_locator_NoStrip(locator) ==
    IF locator = <<>> THEN LocatorError
    ELSE IF Find(locator, "=") # 0
         THEN LET locator_type == Lower(Strip(SubSeq(locator, 1, Find(locator, "=") - 1)))
                  value == DropFirst(locator, Find(locator, "="))
              IN IF locator_type \notin LocatorTypeKeys THEN LocatorError
                 ELSE LocatorDict(locator_type, value)
         ELSE LocatorDict(W_title, locator)

\* parse_locator that strips the title as it strips a prefixed value.
LocatorHelper_parse_locator_StripsTitle(locator) ==
    IF locator = <<>> THEN LocatorError
    ELSE IF Find(locator, "=") # 0
         THEN LET locator_type == Lower(Strip(SubSeq(locator, 1, Find(locator, "=") - 1)))
                  value == Strip(DropFirst(locator, Find(locator, "=")))
              IN IF locator_type \notin LocatorTypeKeys THEN LocatorError
                 ELSE LocatorDict(locator_type, value)
         ELSE LocatorDict(W_title, Strip(locator))

\* LocatorHelper.parse_locator, lines 19-61
LocatorHelper_parse_locator(locator) ==
    IF locator = <<>> THEN LocatorError
    ELSE IF Find(locator, "=") # 0
         THEN LET locator_type == Lower(Strip(SubSeq(locator, 1, Find(locator, "=") - 1)))
                  value == Strip(DropFirst(locator, Find(locator, "=")))
              IN IF locator_type \notin LocatorTypeKeys THEN LocatorError
                 ELSE LocatorDict(locator_type, value)
         ELSE LocatorDict(W_title, locator)

\* PywinautoWindow._parse_locator, lines 371-401: a dict with one key.
PywinautoWindow_parse_locator(locator) ==
    IF StartsWith(locator, W_id \o <<"=">>)
    THEN [raised |-> "", key |-> "auto_id", value |-> DropFirst(locator, 3)]
    ELSE IF StartsWith(locator, W_name \o <<"=">>)
    THEN [raised |-> "", key |-> "name", value |-> DropFirst(locator, 5)]
    ELSE IF StartsWith(locator, W_class \o <<"=">>)
    THEN [raised |-> "", key |-> "class_name", value |-> DropFirst(locator, 6)]
    ELSE IF StartsWith(locator, W_xpath \o <<"=">>)
    THEN [raised |-> "", key |-> "title", value |-> DropFirst(locator, 6)]
    ELSE [raised |-> "", key |-> "title", value |-> locator]

\* The leading words and the characters of the locator strings tried.
LocatorWords ==
    {<<>>, W_id, W_name, W_class, W_xpath, W_title, <<"I", "D">>, <<"f", "o", "o">>,
     <<" ", "i", "d">>, <<"i", "d", " ">>}

LocatorChars == {"=", " ", "a"}

RECURSIVE StringsUpTo(_)
StringsUpTo(n) ==
    IF n = 0 THEN {<<>>}
    ELSE LET shorter == StringsUpTo(n - 1)
         IN shorter \cup {Append(s, c) : s \in shorter, c \in LocatorChars}

NotParsed == [raised |-> "not called"]

\* The locator string given to the parsers.
lRaw == lWord \o lTail

IdleLocator ==
    /\ lWord = <<>>
    /\ lTail = <<>>
    /\ lHelper = NotParsed
    /\ lWindow = NotParsed

InitLocator ==
    /\ lWord \in LocatorWords
    /\ lTail \in StringsUpTo(MaxTail)
    /\ lHelper = NotParsed
    /\ lWindow = NotParsed

LH_parse_locator ==
    /\ lHelper = NotParsed
    /\ lHelper' = LocatorHelper_parse_locator(lRaw)
    /\ UNCHANGED <<lWord, lTail, lWindow>>

PW_parse_locator ==
    /\ lWindow = NotParsed
    /\ lWindow' = PywinautoWindow_parse_locator(lRaw)
    /\ UNCHANGED <<lWord, lTail, lHelper>>

(***************************************************************************)
(* utils/dpi_adapter.py : DPIAdapter.  The scale is dpi / 96.0; for the    *)
(* scales 1.0, 1.25, 1.5 and 2.0 and coordinates of screen size the float  *)
(* products and quotients are the exact rationals, and int() truncates     *)
(* them toward zero.                                                       *)
(***************************************************************************)
BaseDpi == 96

\* GetDpiForSystem() for the scales 1.0, 1.25, 1.5 and 2.0
DpiValues == {96, 120, 144, 192}

\* int(a / b) for b > 0: the quotient truncated toward zero
TruncDiv(a, b) == IF a >= 0 THEN a \div b ELSE -((-a) \div b)

\* DPIAdapter.adapt_coordinate, lines 41-51
DPIAdapter_adapt_coordinate(dpi, x, y) == <<TruncDiv(x * dpi, BaseDpi), TruncDiv(y * dpi, BaseDpi)>>

\* reverse_coordinate that multiplies by the scale as adapt_coordinate does.
DPIAdapter_reverse_coordinate_Multiplies(dpi, x, y) ==
    <<TruncDiv(x * dpi, BaseDpi), TruncDiv(y * dpi, BaseDpi)>>

\* DPIAdapter.reverse_coordinate, lines 65-75
DPIAdapter_reverse_coordinate(dpi, x, y) == <<TruncDiv(x * BaseDpi, dpi), TruncDiv(y * BaseDpi, dpi)>>

IdleDpi ==
    /\ dDpi = BaseDpi
    /\ dLogical = <<0, 0>>
    /\ dPhysical = <<>>
    /\ dReversed = <<>>

D_adapt_coordinate ==
    /\ dPhysical = <<>>
    /\ dPhysical' = DPIAdapter_adapt_coordinate(dDpi, dLogical[1], dLogical[2])
    /\ UNCHANGED <<dDpi, dLogical, dReversed>>

D_reverse_coordinate ==
    /\ dPhysical # <<>>
    /\ dReversed = <<>>
    /\ dReversed' = DPIAdapter_reverse_coordinate(dDpi, dPhysical[1], dPhysical[2])
    /\ UNCHANGED <<dDpi, dLogical, dPhysical>>

(***************************************************************************)
(* The click and type operations of the drivers                            *)
(* (drivers/automation_driver.py, drivers/pywinauto_driver.py) and of      *)
(* ControlService.  `native` is what the native primitive does if the      *)
(* operation reaches it: "ok" or "raise".                                  *)
(***************************************************************************)
\* PywinautoDriver and UIAutomationDriver of automation_driver.py, and
\* PywinautoDriver of pywinauto_driver.py
FactoryDrivers == {"automation_driver.PywinautoDriver", "automation_driver.UIAutomationDriver"}

AllDrivers == FactoryDrivers \cup {"pywinauto_driver.PywinautoDriver"}

\* How an operation ended: its return value or the exception, and whether
\* a native primitive it called failed.
Ended(ret, failed) == [ret |-> ret, raised |-> FALSE, nativeFailed |-> failed]

\* click_element of the three drivers: automation_driver.py lines 335-351
\* and 539-555, pywinauto_driver.py lines 211-243.
Driver_click_element(driver, button, clicks, native) ==
    IF driver \in FactoryDrivers
    THEN IF (clicks = 1 /\ button \in {"left", "right"}) \/ clicks = 2
         THEN Ended(native = "ok", native = "raise")
         ELSE Ended(FALSE, FALSE)
    ELSE IF (clicks = 1 /\ button \in {"left", "right", "middle"}) \/ clicks = 2
         THEN Ended(native = "ok", native = "raise")
         ELSE Ended(TRUE, FALSE)

\* type_text of the three drivers: automation_driver.py lines 353-368 and
\* 557-569, pywinauto_driver.py lines 245-264.  clear_element_text keeps its
\* own failure to itself, so only type_keys / SendKeys decides, whether it is
\* called once for the text or, with a delay, once per character.
Driver_type_text(driver, clear_first, delay, native) == Ended(native = "ok", native = "raise")

\* ControlService.click_element, lines 392-410
ControlService_click_element(driver, button, clicks, native) ==
    LET r == Driver_click_element(driver, button, clicks, native)
    IN Ended(~r.raised, r.nativeFailed)

\* ControlService.type_text, lines 434-454: the driver's type_text is called
\* with the delay in the place of its clear_first.
ControlService_type_text(driver, clear_first, delay, native) ==
    LET r == Driver_type_text(driver, delay > 0, 0, native)
    IN Ended(~r.raised, r.nativeFailed)

\* An exception of the native call that the operation lets out.
Propagated == [ret |-> <<>>, raised |-> TRUE, nativeFailed |-> TRUE]

\* find_elements of the three drivers.  `passes` holds what the native search
\* call does each time it is made, "object" or "raise":
\* automation_driver.PywinautoDriver (lines 312-333) makes the call once,
\* unguarded, and wraps its result in a list; UIAutomationDriver (lines
\* 506-536) repeats it while the timeout lasts, once per element of `passes`,
\* and returns [] when all raised; pywinauto_driver.PywinautoDriver (lines
\* 175-209) makes it once and returns its list, `found` elements long, or []
\* when it raised.
Driver_find_elements(driver, passes, found) ==
    IF driver = "automation_driver.PywinautoDriver"
    THEN IF passes # <<>> /\ passes[1] = "raise" THEN Propagated
         ELSE Ended(<<"element">>, FALSE)
    ELSE IF driver = "automation_driver.UIAutomationDriver"
    THEN IF \E i \in 1..Len(passes) : passes[i] = "object"
         THEN Ended(<<"element">>, \E i \in 1..Len(passes) : passes[i] = "raise")
         ELSE Ended(<<>>, passes # <<>>)
    ELSE IF passes # <<>> /\ passes[1] = "raise" THEN Ended(<<>>, TRUE)
         ELSE Ended([i \in 1..found |-> "element"], FALSE)

A_find_elements(driver, passes, found) ==
    /\ (passes = <<>>) => (driver = "automation_driver.UIAutomationDriver")
    /\ aLast' = [op |-> "find_elements", layer |-> "driver", driver |-> driver,
                 args |-> <<passes, found>>, end |-> Driver_find_elements(driver, passes, found)]

NoAction == [op |-> "none", layer |-> "none", driver |-> "none", args |-> <<>>, end |-> Ended(TRUE, FALSE)]

A_click(layer, driver, button, clicks, native) ==
    aLast' = [op |-> "click", layer |-> layer, driver |-> driver, args |-> <<button, clicks>>,
              end |-> IF layer = "driver"
                      THEN Driver_click_element(driver, button, clicks, native)
                      ELSE ControlService_click_element(driver, button, clicks, native)]

A_type(layer, driver, clear_first, delay, native) ==
    aLast' = [op |-> "type", layer |-> layer, driver |-> driver, args |-> <<clear_first, delay>>,
              end |-> IF layer = "driver"
                      THEN Driver_type_text(driver, clear_first, delay, native)
                      ELSE ControlService_type_text(driver, clear_first, delay, native)]

(***************************************************************************)
(* services/application_service.py : ApplicationService.  An alias is a    *)
(* string, "" standing for an alias not given: None and "" are both falsy. *)
(***************************************************************************)
Aliases == {"a", "b"}

AliasArgs == Aliases \cup {""}

\* dict.get(alias): the application registered under alias, None if none is
AppOf(apps, alias) == IF alias \in DictKeys(apps) THEN DictGet(apps, alias).value ELSE None

\* ApplicationService.get_application, lines 78-96
ApplicationService_get_application(apps, current, app_alias) ==
    IF app_alias # "" THEN AppOf(apps, app_alias)
    ELSE IF current # "" THEN AppOf(apps, current) ELSE None

\* close_application that forgets the application whether or not the driver
\* closed it.
ApplicationService_close_application_AlwaysForgets(apps, current, app_alias, closed) ==
    IF ApplicationService_get_application(apps, current, app_alias) = None
    THEN [ret |-> FALSE, apps |-> apps, current |-> current]
    ELSE IF app_alias # ""
         THEN [ret |-> closed, apps |-> DictDel(apps, app_alias),
               current |-> IF current = app_alias THEN "" ELSE current]
         ELSE [ret |-> closed, apps |-> apps, current |-> current]

\* close_application that leaves the current alias as it is.
ApplicationService_close_application_KeepsCurrent(apps, current, app_alias, closed) ==
    IF ApplicationService_get_application(apps, current, app_alias) = None
    THEN [ret |-> FALSE, apps |-> apps, current |-> current]
    ELSE IF closed /\ app_alias # ""
         THEN [ret |-> closed, apps |-> DictDel(apps, app_alias), current |-> current]
         ELSE [ret |-> closed, apps |-> apps, current |-> current]

\* ApplicationService.close_application, lines 125-152.  `closed` is what
\* driver.close_application returns: it raises nothing.
ApplicationService_close_application(apps, current, app_alias, closed) ==
    IF ApplicationService_get_application(apps, current, app_alias) = None
    THEN [ret |-> FALSE, apps |-> apps, current |-> current]
    ELSE IF closed /\ app_alias # ""
         THEN [ret |-> closed, apps |-> DictDel(apps, app_alias),
               current |-> IF current = app_alias THEN "" ELSE current]
         ELSE [ret |-> closed, apps |-> apps, current |-> current]

\* The loop of close_all_applications over the aliases copied from the dict.
RECURSIVE CloseEach(_, _, _, _, _)
CloseEach(apps, current, app_aliases, closable, success) ==
    IF app_aliases = <<>> THEN [ret |-> success, apps |-> apps, current |-> current]
    ELSE LET r == ApplicationService_close_application(apps, current, Head(app_aliases),
                                                       Head(app_aliases) \in closable)
         IN CloseEach(r.apps, r.current, Tail(app_aliases), closable, success /\ r.ret)

\* ApplicationService.close_all_applications, lines 154-173.  `closable` are
\* the aliases whose application the driver manages to close.
ApplicationService_close_all_applications(apps, current, closable) ==
    LET r == CloseEach(apps, current, [i \in 1..Len(apps) |-> apps[i].key], closable, TRUE)
    IN [r EXCEPT !.current = ""]

NoAppCall == [op |-> "none", asked |-> {}, ret |-> FALSE]

IdleApp ==
    /\ pApps = <<>>
    /\ pCurrent = ""
    /\ pMade = 0
    /\ pLast = NoAppCall

\* start_application, lines 19-43, and connect_application, lines 45-76:
\* the application the driver returns is registered under the alias, if one
\* is given, and made current; an exception of the driver gets out before.
P_start_application(alias, outcome) ==
    /\ pMade < MaxApps
    /\ pMade' = pMade + 1
    /\ IF outcome = "ok" /\ alias # ""
       THEN /\ pApps' = DictPut(pApps, [key |-> alias, value |-> pMade + 1])
            /\ pCurrent' = alias
       ELSE UNCHANGED <<pApps, pCurrent>>
    /\ pLast' = [op |-> "start", asked |-> {}, ret |-> outcome = "ok"]

\* connect_application, lines 45-76.  Without a process id or title it
\* returns None at line 66 before it calls the driver; the driver's call
\* returns an application object, returns None (UIAutomationDriver has no
\* application objects) or raises, and what it returns is registered under
\* the alias, if one is given, and the alias made current.
P_connect_application(identified, alias, outcome) ==
    /\ pMade < MaxApps
    /\ IF ~identified
       THEN UNCHANGED <<pApps, pCurrent, pMade>>
       ELSE /\ pMade' = pMade + 1
            /\ IF outcome # "raise" /\ alias # ""
               THEN /\ pApps' = DictPut(pApps, [key |-> alias,
                                  value |-> IF outcome = "ok" THEN pMade + 1 ELSE None])
                    /\ pCurrent' = alias
               ELSE UNCHANGED <<pApps, pCurrent>>
    /\ pLast' = [op |-> "connect", asked |-> {}, ret |-> identified /\ outcome = "ok"]

\* switch_application, lines 108-123
P_switch_application(app_alias) ==
    /\ pCurrent' = IF app_alias \in DictKeys(pApps) THEN app_alias ELSE pCurrent
    /\ pLast' = [op |-> "switch", asked |-> {}, ret |-> app_alias \in DictKeys(pApps)]
    /\ UNCHANGED <<pApps, pMade>>

P_close_application(app_alias, outcome) ==
    LET r == ApplicationService_close_application(pApps, pCurrent, app_alias, outcome = "closed")
    IN /\ pApps' = r.apps
       /\ pCurrent' = r.current
       /\ pLast' = [op |-> "close",
                    asked |-> {IF app_alias # "" THEN app_alias ELSE pCurrent} \cap DictKeys(pApps),
                    ret |-> r.ret]
       /\ UNCHANGED pMade

P_close_all_applications(closable) ==
    LET r == ApplicationService_close_all_applications(pApps, pCurrent, closable)
    IN /\ pApps' = r.apps
       /\ pCurrent' = r.current
       /\ pLast' = [op |-> "close_all", asked |-> DictKeys(pApps), ret |-> r.ret]
       /\ UNCHANGED pMade

(***************************************************************************)
(* services/control_service.py line 363: the cache key of find_element,    *)
(* over parent objects that are created and garbage-collected.  id(parent) *)
(* is the address of the parent object: unique among the objects alive at  *)
(* one time, and free for another object once the object is collected.     *)
(* SvcParents are the addresses; IdStr is id() of the object living there. *)
(***************************************************************************)
\* The native windows a parent object can wrap.
NativeWindows == {"hwnd1", "hwnd2"}

\* An address no object lives at.
Free == "free"

\* Locator strings, one of them with the separator of the key in it.
KeyLocators == SvcLocators \cup {"id=ok:10.0"}

IdleKey ==
    /\ kHeap = [p \in SvcParents |-> Free]
    /\ kLog = {}

\* A wrapper object for the window w is created at the free address p.
K_wrap(p, w) ==
    /\ kHeap[p] = Free
    /\ kHeap' = [kHeap EXCEPT ![p] = w]
    /\ UNCHANGED kLog

\* The object at address p is garbage-collected.
K_release(p) ==
    /\ kHeap[p] # Free
    /\ kHeap' = [kHeap EXCEPT ![p] = Free]
    /\ UNCHANGED kLog

\* find_element(parent, locator, timeout) with the object at address p as
\* parent, as far as line 363: the key it looks up and stores under.
K_find_element(p, locator, timeout) ==
    /\ kHeap[p] # Free
    /\ Cardinality(kLog) < MaxKeyCalls
    /\ kLog' = kLog \cup {[window |-> kHeap[p], locator |-> locator, timeout |-> timeout,
                           key |-> cache_key(p, locator, timeout)]}
    /\ UNCHANGED kHeap

(***************************************************************************)
(* rf_win/__init__.py : the application keywords of RFWinLibrary and the   *)
(* registry _applications behind them.  time.time() is `now`, in seconds.  *)
(***************************************************************************)
\* app_id arguments: None (generate one) or an id of the caller's.
AppIdArgs == {"<None>", "notepad", "app_1"}

\* line 342: f"app_{int(time.time())}"
GeneratedAppId(t) == "app_" \o ToString(t)

\* _add_application, lines 173-180: self._applications[app_id] = app
RFWinLibrary_add_application(apps, app_id, app) ==
    DictPut(apps, [key |-> app_id, value |-> app])

NoLibCall ==
    [op |-> "none", app_id |-> "", generated |-> FALSE, registered |-> FALSE, replaced |-> None]

IdleLib ==
    /\ rApps = <<>>
    /\ rMade = 0
    /\ rLast = NoLibCall

\* start_application, lines 325-354, and attach_to_application, lines
\* 356-382 (the same code in keywords/application_management.py): the id is
\* generated from the clock when none is given, the backend creates an
\* application object, and when app.start / app.attach returns true the
\* object is registered under the id; otherwise RuntimeError is raised.
R_register(op, app_id, started) ==
    LET id == IF app_id = "<None>" THEN GeneratedAppId(now) ELSE app_id
        app == rMade + 1
    IN /\ rMade < MaxApps
       /\ rMade' = app
       /\ rApps' = IF started THEN RFWinLibrary_add_application(rApps, id, app) ELSE rApps
       /\ rLast' = [op |-> op, app_id |-> id, generated |-> app_id = "<None>",
                    registered |-> started,
                    replaced |-> IF started THEN AppOf(rApps, id) ELSE None]

R_start_application(app_id, started) == R_register("start", app_id, started)

R_attach_to_application(app_id, attached) == R_register("attach", app_id, attached)

\* close_application, lines 384-412: ValueError for an unknown id; the
\* application is removed when app.close returns true.
R_close_application(app_id, result) ==
    /\ rApps' = IF app_id \in DictKeys(rApps) /\ result THEN DictDel(rApps, app_id) ELSE rApps
    /\ rLast' = [op |-> "close", app_id |-> app_id, generated |-> FALSE,
                 registered |-> FALSE, replaced |-> None]
    /\ UNCHANGED rMade

IdleCmp == bPc = "idle"

IdleNew ==
    /\ IdleKey
    /\ IdleLib
    /\ IdleCmp

IdleExt ==
    /\ IdleLocator
    /\ IdleDpi
    /\ aLast = NoAction
    /\ IdleApp
    /\ IdleNew

vars == <<now, nTicks, storeKind, max_size, ccache, mcache, storeLog, storePure, storeLast, storeBook,
          wPc, wTimeout, wInterval, wStart, wPred, wDurCap, wJitCap,
          wPolls, wLast, wLeadRaises, wTrueAt,
          svcCache, svcValid, svcNative, svcCalls, svcLast, bkReadyAt, bkFail, svcAlt,
          fKind, fDrivers, fDefault, fInstances, fConstructed, fReturned, fLast,
          lWord, lTail, lHelper, lWindow, dDpi, dLogical, dPhysical, dReversed,
          aLast, pApps, pCurrent, pMade, pLast, kHeap, kLog,
          rApps, rMade, rLast, bPc>>

InitCache ==
    /\ now = 0
    /\ IdleExt
    /\ nTicks = 0
    /\ InitStore
    /\ IdleWait
    /\ IdleSvc
    /\ IdleFactory

NextCache ==
    \/ \E d \in TickSteps : Tick(d) /\ UNCHANGED <<storeVars, waitVars, svcVars, factVars, extVars>>
    \/ \E k \in StoreKeys, v \in StoreVals, e \in TtlArgs : CC_Set(k, v, e) /\ UNCHANGED <<clockVars, waitVars, svcVars, factVars, extVars>>
    \/ \E k \in StoreKeys : CC_Get(k) /\ UNCHANGED <<clockVars, waitVars, svcVars, factVars, extVars>>
    \/ \E k \in StoreKeys : CC_Remove(k) /\ UNCHANGED <<clockVars, waitVars, svcVars, factVars, extVars>>
    \/ CC_Clear /\ UNCHANGED <<clockVars, waitVars, svcVars, factVars, extVars>>
    \/ \E k \in StoreKeys, v \in StoreVals, e \in TtlArgs : CM_Set(k, v, e) /\ UNCHANGED <<clockVars, waitVars, svcVars, factVars, extVars>>
    \/ \E k \in StoreKeys : CM_Get(k) /\ UNCHANGED <<clockVars, waitVars, svcVars, factVars, extVars>>
    \/ \E k \in StoreKeys : CM_Remove(k) /\ UNCHANGED <<clockVars, waitVars, svcVars, factVars, extVars>>
    \/ CM_Clear /\ UNCHANGED <<clockVars, waitVars, svcVars, factVars, extVars>>

SpecCache == InitCache /\ [][NextCache]_vars

\* No item that was inserted has outlived its time to live.
NoneExpired == \A i \in 1..Len(storeLog) : now - storeLog[i].created <= storeLog[i].ttl

\* C3: a store of capacity N that received set() for N + 1 distinct keys and
\* nothing else, none of them expired, holds exactly N items, and the absent
\* key is the one inserted first: the dict holds the keys 2..N+1 of the
\* insertion history, in that order.
C3_EvictionUnderCapacity ==
    (storePure /\ Len(storeLog) = max_size + 1 /\ NoneExpired)
        => /\ Len(Store) = max_size
           /\ storeLog[1].key \notin DictKeys(Store)
           /\ \A i \in 1..max_size : Store[i].key = storeLog[i + 1].key

C3_Witness ==
    /\ storePure
    /\ Len(storeLog) = max_size + 1
    /\ NoneExpired
    /\ max_size = MaxCap
    /\ storeKind = "CacheManager"
    /\ nTicks > 0

(***************************************************************************)
(* One call of WaitStrategy._wait_until with an arbitrary predicate.       *)
(***************************************************************************)
\* The clock reading at which the call is made.
WaitCallTimes == {0, 7}

InitWaitLoop ==
    /\ now \in WaitCallTimes
    /\ IdleExt
    /\ nTicks = 0
    /\ IdleStore
    /\ IdleSvc
    /\ IdleFactory
    /\ InitWaitWith(0..MaxTimeout, 1..MaxInterval, WaitPreds)

NextWaitLoop ==
    \/ WaitStart /\ UNCHANGED <<nTicks, storeVars, svcVars, factVars, extVars>>
    \/ WaitTest /\ UNCHANGED <<nTicks, storeVars, svcVars, factVars, extVars>>
    \/ WaitPoll /\ UNCHANGED <<nTicks, storeVars, svcVars, factVars, extVars>>
    \/ WaitSleep /\ UNCHANGED <<nTicks, storeVars, svcVars, factVars, extVars>>

SpecWait == InitWaitLoop /\ [][NextWaitLoop]_vars

\* The calling thread runs the loop on: no step of it is postponed forever.
FairSpecWait == SpecWait /\ WF_vars(NextWaitLoop)

Elapsed == now - wStart

\* C4: the call has returned True exactly when a poll returned true, that poll
\* is the first true one and the last poll made; it has returned False only
\* with elapsed >= timeout; no exception ends the call.
C4_WaitResult ==
    /\ ((wTrueAt # 0) => (wPc = "Satisfied" /\ wPolls = wTrueAt))
    /\ ((wPc = "Satisfied") => (wTrueAt # 0 /\ wLast = "true"))
    /\ ((wPc = "TimedOut") => Elapsed >= wTimeout)
    /\ wPc # "Raised"

C4_Witness ==
    /\ wPc = "Satisfied"
    /\ wPolls = 3
    /\ wTrueAt = 3
    /\ wLeadRaises = 0

\* C5: a poll that raises never ends the call: after raising polls the loop
\* goes on as after false ones, the call times out only with
\* elapsed >= timeout, and k raising polls followed by a true one end in True.
C5_RaiseSwallowed ==
    /\ wPc # "Raised"
    /\ ((wLast = "raise") => (wPc \in {"sleep", "test", "poll", "TimedOut"}))
    /\ ((wLast = "raise" /\ wPc = "TimedOut") => Elapsed >= wTimeout)
    /\ ((wLeadRaises >= 1 /\ wPolls = wLeadRaises + 1 /\ wLast = "true") => wPc = "Satisfied")

C5_Witness ==
    /\ wLeadRaises = 2
    /\ wPolls = 3
    /\ wLast = "true"
    /\ wPc = "Satisfied"

\* The timeout boundary as a state predicate: with the constant-false
\* predicate, calls that take no time and sleeps that last exactly the
\* interval, False is returned at an elapsed time in [T, T + I).
C6_Boundary ==
    /\ ((wPred = "false") => wPc # "Satisfied")
    /\ (wPred = "false" /\ wDurCap = 0 /\ wJitCap = 0 /\ wTimeout > 0 /\ wPc = "TimedOut")
          => (wTimeout <= Elapsed /\ Elapsed < wTimeout + wInterval)

SvcTickSteps == {11, find_element_ttl - 10}

InitResolve ==
    /\ now = 0
    /\ IdleExt
    /\ nTicks = 0
    /\ IdleStore
    /\ IdleWait
    /\ IdleFactory
    /\ svcCache = <<>>
    /\ svcValid = {}
    /\ svcNative = 0
    /\ svcCalls = 0
    /\ svcLast = NoResolve
    /\ bkReadyAt = 0
    /\ bkFail = "none"
    /\ svcAlt \in SvcAltArgs

NextResolve ==
    \/ \E d \in SvcTickSteps : Tick(d) /\ UNCHANGED <<storeVars, waitVars, svcVars, factVars, extVars>>
    \/ Resolve /\ UNCHANGED <<clockVars, storeVars, waitVars, factVars, extVars>>
    \/ SetValidity /\ UNCHANGED <<clockVars, storeVars, waitVars, factVars, extVars>>

SpecResolve == InitResolve /\ [][NextResolve]_vars

\* C1: a find_element call that found the store holding an element under its
\* key which the driver reports valid returned that element, normally, and
\* made no driver.find_element call.
C1_CacheHitPath ==
    (svcCalls > 0 /\ svcLast.held # None /\ svcLast.heldValid)
        => /\ svcLast.ret = svcLast.held
           /\ ~svcLast.raised
           /\ svcLast.native = 0

C1_Witness ==
    /\ svcCalls = 2
    /\ svcNative = 1
    /\ svcLast.held = 1
    /\ svcLast.heldValid
    /\ svcLast.ret = 1
    /\ svcLast.native = 0

\* C2: a find_element call that found the store holding, under its key, an
\* element cached by an earlier call which the driver now reports invalid did
\* not return that element and made exactly one driver.find_element call.
C2_StaleEntryResearched ==
    (svcCalls > 0 /\ svcLast.held # None /\ ~svcLast.heldValid)
        => /\ svcLast.ret # svcLast.held
           /\ svcLast.native = 1

C2_Witness ==
    /\ svcCalls = 2
    /\ svcLast.held = 1
    /\ ~svcLast.heldValid
    /\ svcLast.native = 1
    /\ svcNative = 2
    /\ svcLast.ret = 2
    /\ ~svcLast.raised

(***************************************************************************)
(* WaitStrategy._wait_until layered over ControlService.find_element with  *)
(* the fake backend.                                                       *)
(***************************************************************************)
InitRetry ==
    /\ now = 0
    /\ IdleExt
    /\ nTicks = 0
    /\ IdleStore
    /\ IdleFactory
    /\ InitWaitWith({3, MaxTimeout}, 1..MaxInterval, {"resolve"})
    /\ svcCache = <<>>
    /\ svcValid = {}
    /\ svcNative = 0
    /\ svcCalls = 0
    /\ svcLast = NoResolve
    /\ bkReadyAt \in 1..MaxReadyAt
    /\ bkFail \in {"raise", "none"}
    /\ svcAlt = SvcBaseArgs

NextRetry ==
    \/ WaitStart /\ UNCHANGED <<nTicks, storeVars, svcVars, factVars, extVars>>
    \/ WaitTest /\ UNCHANGED <<nTicks, storeVars, svcVars, factVars, extVars>>
    \/ ResolvePoll /\ UNCHANGED <<nTicks, storeVars, factVars, extVars>>
    \/ WaitSleep /\ UNCHANGED <<nTicks, storeVars, svcVars, factVars, extVars>>

SpecRetry == InitRetry /\ [][NextRetry]_vars

\* The calling thread runs the loop on.
FairSpecRetry == SpecRetry /\ WF_vars(NextRetry)

\* find_element calls served from the store.
SvcHits == svcCalls - svcNative

\* The scenario: the backend is ready at its 3rd invocation, timeout 5 s and
\* interval 0.5 s (10 and 1 in units of 0.5 s), and the third poll starts
\* within the timeout.
RetryScenario ==
    /\ bkReadyAt = 3
    /\ wTimeout = 10
    /\ wInterval = 1
    /\ 2 * (wDurCap + wInterval + wJitCap) < wTimeout

C7_Counts ==
    RetryScenario =>
        /\ svcNative <= 3
        /\ SvcHits = 0
        /\ ((wPc \in WaitTerminal) => (wPc = "Satisfied" /\ svcNative = 3 /\ svcCalls = 3))

\* C7: in the scenario the wait returns True, after exactly 3
\* driver.find_element calls, none of the resolution attempts having been
\* served from the store.
C7_RetryScenario ==
    /\ []C7_Counts
    /\ RetryScenario ~> (wPc = "Satisfied")

C7_Witness ==
    /\ RetryScenario
    /\ wPc = "Satisfied"
    /\ svcNative = 3
    /\ svcCalls = 3
    /\ bkFail = "none"
    /\ Len(svcCache) = 1

(***************************************************************************)
(* One factory of either class, driven by its public methods.              *)
(***************************************************************************)
InitFactory ==
    /\ now = 0
    /\ IdleExt
    /\ nTicks = 0
    /\ IdleStore
    /\ IdleWait
    /\ IdleSvc
    /\ \/ \E p \in BOOLEAN, u \in BOOLEAN : InitDriverFactory(p, u)
       \/ InitBackendFactory

NextFactory ==
    \/ \E name \in NameArgs : DF_get_driver(name) /\ UNCHANGED <<clockVars, storeVars, waitVars, svcVars, extVars>>
    \/ \E name \in FNames : DF_set_default_driver(name) /\ UNCHANGED <<clockVars, storeVars, waitVars, svcVars, extVars>>
    \/ \E name \in NameArgs : BF_get_backend(name) /\ UNCHANGED <<clockVars, storeVars, waitVars, svcVars, extVars>>
    \/ \E name \in FNames : BF_set_default_backend(name) /\ UNCHANGED <<clockVars, storeVars, waitVars, svcVars, extVars>>
    \/ \E name \in FNames : BF_register_backend(name) /\ UNCHANGED <<clockVars, storeVars, waitVars, svcVars, extVars>>

SpecFactory == InitFactory /\ [][NextFactory]_vars

\* The last call was a get with an explicit name: a name given, and not "auto".
ExplicitGet == fLast.op = "get" /\ fLast.name \notin {NoName, "auto"}

\* The last call was a get with the name "auto" or with the name left out.
AutomaticGet == fLast.op = "get" /\ fLast.name \in {NoName, "auto"}

\* C8: a get with an explicit name returned the instance registered under
\* exactly that name if there was one, and otherwise raised ValueError and
\* returned nothing; either way it left the registry and the default as they
\* were.
C8_ExplicitSelection ==
    ExplicitGet =>
        /\ IF Registered(fLast.pre.drivers, fLast.name)
           THEN fLast.raised = "" /\ fLast.ret = fLast.pre.drivers[fLast.name]
           ELSE fLast.raised = "ValueError" /\ fLast.ret = NoInstance
        /\ fDrivers = fLast.pre.drivers
        /\ fDefault = fLast.pre.default

C8_Witness ==
    /\ ExplicitGet
    /\ fLast.name = "other"
    /\ fLast.raised = "ValueError"
    /\ Registered(fDrivers, "pywinauto")
    /\ fDefault = "uiautomation"

\* The first available driver in the order pywinauto, uiautomation.
FirstAvailable(drivers) ==
    IF Registered(drivers, "pywinauto") THEN drivers["pywinauto"]
    ELSE IF Registered(drivers, "uiautomation") THEN drivers["uiautomation"]
    ELSE NoInstance

\* C9 as stated, for DriverFactory: whatever defaults were set before, a get
\* with "auto" or with the name left out returns the first available driver.
C9_AutoIgnoresDefault ==
    (fKind = "DriverFactory" /\ AutomaticGet) =>
        (/\ fLast.ret = FirstAvailable(fLast.pre.drivers)
         /\ ((fLast.raised = "ValueError") <=> (FirstAvailable(fLast.pre.drivers) = NoInstance)))

\* What the last get selected by: the name given, or the default in force
\* when the name was left out.
SelectedBy == IF fLast.name = NoName THEN fLast.pre.default ELSE fLast.name

\* C9 amended: DriverFactory.get_driver("auto") returns the first available
\* driver in the order pywinauto, uiautomation (ValueError if there is none);
\* BackendFactory.get_backend("auto") returns the pywinauto backend and raises
\* ValueError if it is not registered, never falling back to uiautomation; a
\* get with the name left out behaves as a get of the current default, which
\* is "auto" or a registered name that set_default chose, or the one the
\* constructor chose.
C9_AutomaticSelection ==
    AutomaticGet =>
        LET d == fLast.pre.drivers
            expected ==
                IF SelectedBy = "auto"
                THEN IF fKind = "DriverFactory" THEN FirstAvailable(d)
                     ELSE IF Registered(d, "pywinauto") THEN d["pywinauto"] ELSE NoInstance
                ELSE IF Registered(d, SelectedBy) THEN d[SelectedBy] ELSE NoInstance
        IN /\ fLast.ret = expected
           /\ ((fLast.raised = "ValueError") <=> (expected = NoInstance))
           /\ ((fLast.raised = "") <=> (expected # NoInstance))

\* uiautomation is returned for "auto" because pywinauto is not available.
C9_Witness ==
    /\ fKind = "DriverFactory"
    /\ fLast.op = "get"
    /\ fLast.name = "auto"
    /\ ~Registered(fDrivers, "pywinauto")
    /\ Registered(fDrivers, "uiautomation")
    /\ fLast.ret = fDrivers["uiautomation"]
    /\ fLast.raised = ""

\* C10: the requests made for one registered name, by get calls interleaved
\* with set-default calls, were all answered with the same instance, and
\* DriverFactory constructed at most one driver per name.
C10_Singleton ==
    /\ \A n \in FNames : Cardinality(fReturned[n]) <= 1
    /\ \A n \in FNames : fConstructed[n] <= 1
    /\ ((fKind = "DriverFactory") => fInstances <= 2)

C10_Witness ==
    /\ fKind = "DriverFactory"
    /\ fReturned["pywinauto"] = {1}
    /\ fReturned["uiautomation"] = {2}
    /\ fLast.op = "get"
    /\ fLast.name = "pywinauto"
    /\ fLast.pre.default = "uiautomation"

(***************************************************************************)
(* The two locator parsers applied to one locator string.                  *)
(***************************************************************************)
InitParse ==
    /\ now = 0
    /\ nTicks = 0
    /\ IdleStore
    /\ IdleWait
    /\ IdleSvc
    /\ IdleFactory
    /\ InitLocator
    /\ IdleDpi
    /\ aLast = NoAction
    /\ IdleApp
    /\ IdleNew

NextParse ==
    \/ LH_parse_locator /\ UNCHANGED <<clockVars, storeVars, waitVars, svcVars, factVars, dpiVars, aLast, appVars, newVars>>
    \/ PW_parse_locator /\ UNCHANGED <<clockVars, storeVars, waitVars, svcVars, factVars, dpiVars, aLast, appVars, newVars>>

SpecParse == InitParse /\ [][NextParse]_vars

RecognisedPrefixes == {W_id, W_name, W_class, W_xpath}

\* The kind each recognised prefix stands for.
ExpectedKind(p) ==
    IF p = W_id THEN "automation_id" ELSE IF p = W_name THEN "name"
    ELSE IF p = W_class THEN "class_name" ELSE "xpath"

\* The locator string is p + "=" + v for a recognised prefix p, and
\* LocatorHelper.parse_locator was applied to it.
PrefixedParsed ==
    /\ lWord \in RecognisedPrefixes
    /\ lTail # <<>>
    /\ lTail[1] = "="
    /\ lHelper # NotParsed

\* The v of p + "=" + v.
GivenValue == Tail(lTail)

\* C11 as stated: the value parsed from p + "=" + v is v, character for
\* character, and the kind is that of p.
C11_ValueVerbatim ==
    PrefixedParsed =>
        /\ lHelper.raised = ""
        /\ lHelper.type = lWord
        /\ lHelper.backend_key = ExpectedKind(lWord)
        /\ lHelper.value = GivenValue

\* x is v without the whitespace around it.
IsTrimOf(x, v) ==
    /\ \E i \in 0..Len(v), j \in 0..Len(v) :
          /\ i + Len(x) + j = Len(v)
          /\ x = SubSeq(v, i + 1, i + Len(x))
          /\ \A k \in 1..i : v[k] \in Whitespace
          /\ \A k \in (Len(v) - j + 1)..Len(v) : v[k] \in Whitespace
    /\ (x # <<>>) => (x[1] \notin Whitespace /\ x[Len(x)] \notin Whitespace)

\* C11 amended: for each prefix p in {id, name, class, xpath} and every value
\* string v, LocatorHelper.parse_locator(p + "=" + v) yields the kind that
\* corresponds to p and a value equal to v without its leading and trailing
\* whitespace: equal to v character for character when v neither starts nor
\* ends with whitespace.
C11_PrefixParsing ==
    PrefixedParsed =>
        /\ lHelper.raised = ""
        /\ lHelper.type = lWord
        /\ lHelper.backend_key = ExpectedKind(lWord)
        /\ IsTrimOf(lHelper.value, GivenValue)
        /\ ((GivenValue = <<>> \/ (Head(GivenValue) \notin Whitespace
                                  /\ GivenValue[Len(GivenValue)] \notin Whitespace))
               => lHelper.value = GivenValue)

\* class= with a value that holds an "=" and ends with a blank.
C11_Witness ==
    /\ lWord = W_class
    /\ lTail = <<"=", "=", " ">>
    /\ lHelper # NotParsed
    /\ lHelper.backend_key = "class_name"
    /\ lHelper.value = <<"=">>

\* The string is not empty and starts with none of id=, name=, class=, xpath=.
NoRecognisedPrefix(raw) ==
    /\ raw # <<>>
    /\ \A p \in RecognisedPrefixes : ~StartsWith(raw, p \o <<"=">>)

UnknownTypeBeforeEquals(raw) ==
    \E i \in 1..Len(raw) :
        /\ raw[i] = "="
        /\ \A j \in 1..(i - 1) : raw[j] # "="
        /\ Lower(Strip(SubSeq(raw, 1, i - 1))) \notin {W_id, W_name, W_class, W_xpath, W_title}

coreVars == <<clockVars, storeVars, waitVars, svcVars, factVars>>

IdleCore ==
    /\ now = 0
    /\ nTicks = 0
    /\ IdleStore
    /\ IdleWait
    /\ IdleSvc
    /\ IdleFactory

InitRoundTrip ==
    /\ IdleCore
    /\ IdleLocator
    /\ aLast = NoAction
    /\ IdleApp
    /\ dDpi \in DpiValues
    /\ dLogical \in (-MaxCoord..MaxCoord) \X (-MaxCoord..MaxCoord)
    /\ dPhysical = <<>>
    /\ dReversed = <<>>
    /\ IdleNew

NextRoundTrip ==
    \/ D_adapt_coordinate /\ UNCHANGED <<coreVars, locVars, aLast, appVars, newVars>>
    \/ D_reverse_coordinate /\ UNCHANGED <<coreVars, locVars, aLast, appVars, newVars>>

SpecRoundTrip == InitRoundTrip /\ [][NextRoundTrip]_vars

\* |a - b|
Dist(a, b) == IF a >= b THEN a - b ELSE b - a

\* C13: reverse_coordinate applied to the result of adapt_coordinate differs
\* from the logical pair by at most 1 pixel in each component, at each of
\* the scales 1.0, 1.25, 1.5 and 2.0; at scale 1.0 it is the pair itself.
C13_DpiRoundTrip ==
    (dReversed # <<>>) =>
        /\ Dist(dReversed[1], dLogical[1]) <= 1
        /\ Dist(dReversed[2], dLogical[2]) <= 1
        /\ ((dDpi = BaseDpi) => (dReversed = dLogical))

\* Scale 1.25: (3, -3) becomes (3, -3) and comes back as (2, -2).
C13_Witness ==
    /\ dDpi = 120
    /\ dLogical = <<3, -3>>
    /\ dPhysical = <<3, -3>>
    /\ dReversed = <<2, -2>>

(***************************************************************************)
(* Clicks and text input through a driver or through ControlService.       *)
(***************************************************************************)
InitAct ==
    /\ IdleCore
    /\ IdleLocator
    /\ IdleDpi
    /\ IdleApp
    /\ aLast = NoAction
    /\ IdleNew

\* What the native search call does at each of the passes the timeout allows;
\* none for a timeout of 0, which only UIAutomationDriver looks at.
SearchPasses ==
    UNION {[1..n -> {"object", "raise"}] : n \in 0..MaxPasses}

NextAct ==
    \/ \E d \in AllDrivers, b \in {"left", "right", "middle"}, c \in 1..3, n \in {"ok", "raise"} :
          A_click("driver", d, b, c, n) /\ UNCHANGED <<coreVars, locVars, dpiVars, appVars, newVars>>
    \/ \E d \in FactoryDrivers, b \in {"left", "right", "middle"}, c \in 1..3, n \in {"ok", "raise"} :
          A_click("service", d, b, c, n) /\ UNCHANGED <<coreVars, locVars, dpiVars, appVars, newVars>>
    \/ \E d \in AllDrivers, cf \in BOOLEAN, dl \in 0..1, n \in {"ok", "raise"} :
          A_type("driver", d, cf, dl, n) /\ UNCHANGED <<coreVars, locVars, dpiVars, appVars, newVars>>
    \/ \E d \in FactoryDrivers, cf \in BOOLEAN, dl \in 0..1, n \in {"ok", "raise"} :
          A_type("service", d, cf, dl, n) /\ UNCHANGED <<coreVars, locVars, dpiVars, appVars, newVars>>
    \/ \E d \in AllDrivers, ps \in SearchPasses, n \in 0..MaxFound :
          A_find_elements(d, ps, n) /\ UNCHANGED <<coreVars, locVars, dpiVars, appVars, newVars>>

SpecAct == InitAct /\ [][NextAct]_vars

\* C14: a click or type operation whose native primitive failed ended in an
\* exception, not in a normal return.
C14_FailureRaises ==
    (aLast.op \in {"click", "type"} /\ aLast.end.nativeFailed) => aLast.end.raised

\* C15: find_elements of each driver returned a sequence and raised nothing,
\* and the sequence is empty when the native search failed.
C15_FindElementsNeverFails ==
    (aLast.op = "find_elements") =>
        /\ ~aLast.end.raised
        /\ ((\A i \in 1..Len(aLast.args[1]) : aLast.args[1][i] = "raise")
              => (aLast.end.ret = <<>>))

(***************************************************************************)
(* An ApplicationService driven by its public methods.                     *)
(***************************************************************************)
InitApps ==
    /\ IdleCore
    /\ IdleLocator
    /\ IdleDpi
    /\ aLast = NoAction
    /\ IdleApp
    /\ IdleNew

NextApps ==
    \/ \E a \in AliasArgs :
          P_close_application(a, "closed") /\ UNCHANGED <<coreVars, locVars, dpiVars, aLast, newVars>>
    \/ \E a \in AliasArgs :
          P_close_application(a, "failed") /\ UNCHANGED <<coreVars, locVars, dpiVars, aLast, newVars>>
    \/ \E a \in AliasArgs, o \in {"ok", "raise"} :
          P_start_application(a, o) /\ UNCHANGED <<coreVars, locVars, dpiVars, aLast, newVars>>
    \/ \E a \in Aliases : P_switch_application(a) /\ UNCHANGED <<coreVars, locVars, dpiVars, aLast, newVars>>
    \/ \E c \in SUBSET Aliases :
          P_close_all_applications(c) /\ UNCHANGED <<coreVars, locVars, dpiVars, aLast, newVars>>
    \/ \E i \in BOOLEAN, a \in AliasArgs, o \in {"ok", "none", "raise"} :
          P_connect_application(i, a, o) /\ UNCHANGED <<coreVars, locVars, dpiVars, aLast, newVars>>

SpecApps == InitApps /\ [][NextApps]_vars

\* C16: after close_application or close_all_applications returned, no
\* application the call was asked to close is in the registry, and after
\* close_all_applications the registry is empty.
C16_ClosedAppsForgotten ==
    /\ (pLast.op \in {"close", "close_all"}) => (pLast.asked \cap DictKeys(pApps) = {})
    /\ (pLast.op = "close_all") => (pApps = <<>>)

(***************************************************************************)
(* RFWinLibrary.wait_until retrying a keyword.                             *)
(***************************************************************************)
InitKeyword ==
    /\ now = 0
    /\ nTicks = 0
    /\ IdleStore
    /\ IdleSvc
    /\ IdleFactory
    /\ IdleExt
    /\ InitWaitWith({0, 3, MaxTimeout}, 1..MaxInterval, {"keyword"})

NextKeyword ==
    \/ WaitStart /\ UNCHANGED <<nTicks, storeVars, svcVars, factVars, extVars>>
    \/ WaitTest /\ UNCHANGED <<nTicks, storeVars, svcVars, factVars, extVars>>
    \/ KW_Attempt /\ UNCHANGED <<nTicks, storeVars, svcVars, factVars, extVars>>
    \/ WaitSleep /\ UNCHANGED <<nTicks, storeVars, svcVars, factVars, extVars>>

SpecKeyword == InitKeyword /\ [][NextKeyword]_vars

\* C17 as stated: an attempt that returned a truthy result, or that returned
\* without raising, made the wait return true.
C17_NoExceptionIsSuccess ==
    (wPred = "keyword" /\ wLast \in {"true", "false"}) => (wPc = "Satisfied")

\* C17 amended: RFWinLibrary.wait_until returns true at the first attempt at
\* which the keyword returns a truthy result; an attempt that raises and an
\* attempt that returns a falsy result without raising both count as
\* failures and lead to another attempt while the timeout lasts.
C17_KeywordRetry ==
    (wPred = "keyword") =>
        /\ ((wLast = "true") => (wPc = "Satisfied" /\ wTrueAt = wPolls))
        /\ ((wPc = "Satisfied") => (wLast = "true"))
        /\ ((wLast \in {"false", "raise"}) => (wPc \in {"sleep", "test", "poll", "TimedOut"}))
        /\ ((wPc = "TimedOut") => (Elapsed >= wTimeout))
        /\ wPc # "Raised"

\* An attempt that raised, one that returned a falsy result, then a truthy one.
C17_Witness ==
    /\ wPred = "keyword"
    /\ wPolls = 3
    /\ wLeadRaises = 1
    /\ wTrueAt = 3
    /\ wPc = "Satisfied"

\* The last find_element call found, under its key, an element that the
\* driver reported invalid.
FoundStale == svcCalls > 0 /\ svcLast.held # None /\ ~svcLast.heldValid

\* The store holds the element h.
InStore(h) == \E i \in 1..Len(svcCache) : svcCache[i].value = h

\* C18 as stated: the stale element is no longer in the store when the call
\* has finished, whether the driver's search succeeded or failed.
C18_StaleEvicted == FoundStale => ~InStore(svcLast.held)

\* C18 amended: find_element has no eviction step; the stale element leaves
\* the store when the driver's search returns, an element or None, because
\* the result is stored under the same key; when the search raises, the stale
\* element is still in the store when the call has finished.
C18_StaleOverwritten ==
    /\ ((FoundStale /\ ~svcLast.raised) =>
           (~InStore(svcLast.held) /\ svcLast.key \in DictKeys(svcCache)
            /\ DictGet(svcCache, svcLast.key).value = svcLast.ret))
    /\ ((FoundStale /\ svcLast.raised) =>
           (InStore(svcLast.held) /\ DictGet(svcCache, svcLast.key).value = svcLast.held))

\* A stale element replaced by the None of a search that found nothing.
C18_Witness ==
    /\ FoundStale
    /\ svcLast.held = 1
    /\ ~svcLast.raised
    /\ svcLast.ret = None
    /\ svcLast.native = 1
    /\ DictGet(svcCache, svcLast.key).value = None

\* The seconds since item i of the store was inserted.
Age(i) == now - svcCache[i].insertedAt

C20_NoRetryInService ==
    (svcCalls > 0) =>
        /\ svcLast.native \in {0, 1}
        /\ svcNative <= svcCalls
        /\ ((svcLast.native = 1 /\ svcNative # bkReadyAt) =>
               (IF bkFail = "raise" THEN svcLast.raised
                ELSE ~svcLast.raised /\ svcLast.ret = None))

\* The second call of a wait, failing like the first with an exception.
C20_Witness ==
    /\ svcCalls = 2
    /\ svcNative = 2
    /\ bkReadyAt = 3
    /\ bkFail = "raise"
    /\ svcLast.raised
    /\ svcLast.native = 1

(***************************************************************************)
(* The cache keys of find_element calls on parent objects that come and go.*)
(***************************************************************************)
InitKey ==
    /\ IdleCore
    /\ IdleLocator
    /\ IdleDpi
    /\ aLast = NoAction
    /\ IdleApp
    /\ IdleKey
    /\ IdleLib
    /\ IdleCmp

NextKey ==
    \/ \E p \in SvcParents, w \in NativeWindows :
          K_wrap(p, w) /\ UNCHANGED <<coreVars, locVars, dpiVars, aLast, appVars, libVars, cmpVars>>
    \/ \E p \in SvcParents :
          K_release(p) /\ UNCHANGED <<coreVars, locVars, dpiVars, aLast, appVars, libVars, cmpVars>>
    \/ \E p \in SvcParents, l \in KeyLocators, t \in SvcTimeouts :
          K_find_element(p, l, t) /\ UNCHANGED <<coreVars, locVars, dpiVars, aLast, appVars, libVars, cmpVars>>

SpecKey == InitKey /\ [][NextKey]_vars

\* Two find_element calls were given the same parent window, locator string
\* and timeout.
SameInputs(a, b) ==
    /\ a.window = b.window
    /\ a.locator = b.locator
    /\ a.timeout = b.timeout

\* C21: two find_element calls with equal (parent identity, locator string,
\* timeout) used the same cache key, and two calls that differ in one of the
\* three used different keys.
C21_KeyDeterminism ==
    \A a \in kLog, b \in kLog : (SameInputs(a, b)) <=> (a.key = b.key)

(***************************************************************************)
(* The cache store under every public method of its class, and what one    *)
(* call did to the entries it found.  The set-only history of the store is *)
(* not kept here.                                                          *)
(***************************************************************************)
InitStoreCalls ==
    /\ storeKind \in StoreKinds
    /\ max_size \in 1..MaxCap
    /\ ccache = <<>>
    /\ mcache = <<>>
    /\ storeLog = <<>>
    /\ storePure = FALSE
    /\ storeLast = NoCall
    /\ storeBook = NoBook

InitCalls ==
    /\ now = 0
    /\ IdleExt
    /\ nTicks = 0
    /\ InitStoreCalls
    /\ IdleWait
    /\ IdleSvc
    /\ IdleFactory

NextCalls ==
    \/ \E d \in TickSteps : Tick(d) /\ UNCHANGED <<storeVars, waitVars, svcVars, factVars, extVars>>
    \/ \E k \in StoreKeys, v \in StoreVals, e \in TtlArgs : CC_Set(k, v, e) /\ UNCHANGED <<clockVars, waitVars, svcVars, factVars, extVars>>
    \/ \E k \in StoreKeys : CC_Get(k) /\ UNCHANGED <<clockVars, waitVars, svcVars, factVars, extVars>>
    \/ \E k \in StoreKeys : CC_Remove(k) /\ UNCHANGED <<clockVars, waitVars, svcVars, factVars, extVars>>
    \/ CC_Clear /\ UNCHANGED <<clockVars, waitVars, svcVars, factVars, extVars>>
    \/ \E k \in StoreKeys, v \in StoreVals, e \in TtlArgs : CM_Set(k, v, e) /\ UNCHANGED <<clockVars, waitVars, svcVars, factVars, extVars>>
    \/ \E k \in StoreKeys : CM_Get(k) /\ UNCHANGED <<clockVars, waitVars, svcVars, factVars, extVars>>
    \/ \E k \in StoreKeys : CM_Remove(k) /\ UNCHANGED <<clockVars, waitVars, svcVars, factVars, extVars>>
    \/ CM_Clear /\ UNCHANGED <<clockVars, waitVars, svcVars, factVars, extVars>>
    \/ \E k \in StoreKeys : CM_Exists(k) /\ UNCHANGED <<clockVars, waitVars, svcVars, factVars, extVars>>
    \/ CM_GetSize /\ UNCHANGED <<clockVars, waitVars, svcVars, factVars, extVars>>
    \/ CM_GetKeys /\ UNCHANGED <<clockVars, waitVars, svcVars, factVars, extVars>>
    \/ \E k \in UpdateKeys, e \in UpdateTtlArgs : CM_UpdateExpireTime(k, e) /\ UNCHANGED <<clockVars, waitVars, svcVars, factVars, extVars>>

SpecStore == InitCalls /\ [][NextCalls]_vars

\* The keys in the dict whose entries are alive and those whose entries have
\* expired.
AliveKeys == {j \in DictKeys(Store) : Found(j, now) = "alive"}

ExpiredKeys == DictKeys(Store) \ AliveKeys

\* The step is a call of the method op on the store.
IsCall(op) == storeLast'.op = op /\ now' = now

\* C22: a set() on a store at capacity purges every expired entry; it removes
\* no unexpired entry when the purge leaves the store below capacity, and at
\* most one when it does not.
C22_EvictionSteps ==
    [][(IsCall("set") /\ Len(Store) >= max_size) =>
          /\ (ExpiredKeys \cap DictKeys(StoreAfter)) \subseteq {storeLast'.key}
          /\ ((Cardinality(AliveKeys) < max_size) => (AliveKeys \subseteq DictKeys(StoreAfter)))
          /\ ((Cardinality(AliveKeys) >= max_size) =>
                 (Cardinality(AliveKeys \ DictKeys(StoreAfter)) <= 1))]_vars

\* The store under every public method, the caller keeping its book.
InitOrder ==
    /\ now = 0
    /\ IdleExt
    /\ nTicks = 0
    /\ storeKind \in StoreKinds
    /\ max_size \in 1..MaxCap
    /\ ccache = <<>>
    /\ mcache = <<>>
    /\ storeLog = <<>>
    /\ storePure = FALSE
    /\ storeLast = NoCall
    /\ storeBook = [kept |-> TRUE, keys |-> <<>>]
    /\ IdleWait
    /\ IdleSvc
    /\ IdleFactory

SpecOrder == InitOrder /\ [][NextCalls]_vars

\* C23: with no entry expired, the entry a set() evicts is the one whose key
\* was inserted earliest, and a get() leaves the dict as it is.
C23_InsertionOrderEviction ==
    [][/\ ((IsCall("set") /\ ExpiredKeys = {}) =>
              (\A j \in DictKeys(Store) \ DictKeys(StoreAfter) : j = Head(storeBook.keys)))
       /\ ((IsCall("get") /\ ExpiredKeys = {}) => (StoreAfter = Store))]_vars

\* C24: the store never holds more than max_size entries.
C24_BoundedSize == Len(Store) <= max_size

\* A set() of a new key on a full CacheManager of the largest capacity: the
\* store is full again afterwards.
C24_Witness ==
    /\ storeKind = "CacheManager"
    /\ storeLast.op = "set"
    /\ max_size = MaxCap
    /\ storeLast.full
    /\ storeLast.found = "absent"
    /\ Len(Store) = max_size

\* C25: get(key) returned the stored value when the entry's age was at most
\* its time to live, the one update_expire_time gave it if it was called;
\* for an older entry it returned None and removed the entry; for an absent
\* key it returned None.
C25_NoExpiredValue ==
    (storeLast.op = "get") =>
        /\ ((storeLast.found = "alive") =>
               (storeLast.ret \in StoreVals /\ storeLast.key \in DictKeys(Store)))
        /\ ((storeLast.found = "expired") =>
               (storeLast.ret = None /\ storeLast.key \notin DictKeys(Store)))
        /\ ((storeLast.found = "absent") => (storeLast.ret = None))

\* A get() of an expired entry whose time to live update_expire_time had set
\* to 0.
C25_Witness ==
    /\ storeKind = "CacheManager"
    /\ storeLast.op = "get"
    /\ storeLast.found = "expired"
    /\ storeLast.ttl = 0
    /\ storeLast.ret = None
    /\ storeLast.key \notin DictKeys(Store)

\* C28: a set() on a key that is stored removes no other unexpired entry, and
\* the key is stored afterwards.
C28_OverwriteKeepsOthers ==
    [][(IsCall("set") /\ storeLast'.key \in DictKeys(Store)) =>
          (AliveKeys \subseteq DictKeys(StoreAfter) /\ storeLast'.key \in DictKeys(StoreAfter))]_vars

\* The step is a find_element call whose native search found nothing: the
\* driver raised, or returned None.
FailedSearch ==
    /\ svcCalls' = svcCalls + 1
    /\ svcLast'.native = 1
    /\ (svcLast'.raised \/ svcLast'.ret = None)

\* C26: after a find_element call whose native search found nothing, the
\* store holds no entry under the call's key, and every live entry that was
\* stored under another key is still stored.
C26_FailedSearchNotCached ==
    [][FailedSearch =>
          /\ svcLast'.key \notin DictKeys(svcCache')
          /\ \A i \in 1..Len(svcCache) :
                (svcCache[i].key # svcLast'.key /\ SvcStore_fresh(svcCache[i], now))
                    => (svcCache[i].key \in DictKeys(svcCache'))]_vars

\* C27: the current application alias is None or an alias of the registry.
C27_CurrentIsRegistered == pCurrent = "" \/ pCurrent \in DictKeys(pApps)

\* close_application closed a registered application that was not the
\* current one: the current one is still current and registered.
C27_Witness ==
    /\ pLast.op = "close"
    /\ pLast.ret
    /\ pLast.asked # {}
    /\ pLast.asked \cap DictKeys(pApps) = {}
    /\ pCurrent # ""
    /\ pCurrent \in DictKeys(pApps)

(***************************************************************************)
(* The application keywords of RFWinLibrary while the clock advances.      *)
(***************************************************************************)
InitLibrary ==
    /\ IdleCore
    /\ IdleLocator
    /\ IdleDpi
    /\ aLast = NoAction
    /\ IdleApp
    /\ IdleKey
    /\ IdleLib
    /\ IdleCmp

NextLibrary ==
    \/ \E a \in AppIdArgs :
          R_start_application(a, TRUE)
          /\ UNCHANGED <<coreVars, locVars, dpiVars, aLast, appVars, keyVars, cmpVars>>
    \/ \E a \in AppIdArgs :
          R_start_application(a, FALSE)
          /\ UNCHANGED <<coreVars, locVars, dpiVars, aLast, appVars, keyVars, cmpVars>>
    \/ \E a \in AppIdArgs, ok \in BOOLEAN :
          R_attach_to_application(a, ok)
          /\ UNCHANGED <<coreVars, locVars, dpiVars, aLast, appVars, keyVars, cmpVars>>
    \/ \E a \in DictKeys(rApps) \cup {"notepad"}, ok \in BOOLEAN :
          R_close_application(a, ok)
          /\ UNCHANGED <<coreVars, locVars, dpiVars, aLast, appVars, keyVars, cmpVars>>
    \/ \E d \in TickSteps :
          Tick(d) /\ UNCHANGED <<storeVars, waitVars, svcVars, factVars, extVars>>

SpecLibrary == InitLibrary /\ [][NextLibrary]_vars

\* C29: a start_application or attach_to_application call made without an
\* app_id that registered its application did so under an id that was not in
\* the registry: it replaced no registered application.
C29_GeneratedIdsAreNew ==
    (rLast.generated /\ rLast.registered) => (rLast.replaced = None)

(***************************************************************************)
(* backend/pywinauto_backend.py : PywinautoOperation.wait_until, run       *)
(* beside WaitStrategy._wait_until.                                        *)
(*                                                                         *)
(* Both calls are made at the same clock reading with the same timeout and *)
(* interval, and the predicate does at its n-th call the same thing, in    *)
(* the same time, for both; so do the sleeps.  The two loops then read the *)
(* same clock values at lines 1062/169 and 1063/171 and are advanced       *)
(* together while PywinautoOperation.wait_until has not ended; bPc is its  *)
(* position, wPc that of _wait_until.                                      *)
(***************************************************************************)
\* line 1063
PywinautoOperation_wait_until_cond(t, start, timeout) == t - start < timeout

\* lines 1064-1066: where the call goes after condition_func() ended with
\* `outcome`.  The call is not inside a try: an exception leaves wait_until.
PywinautoOperation_wait_until_after(outcome) ==
    CASE outcome = "true" -> "Satisfied"
      [] outcome = "false" -> "sleep"
      [] outcome = "raise" -> "Raised"

\* lines 1062 and 169
B_Start ==
    /\ bPc = "start"
    /\ WaitStart
    /\ bPc' = "test"

\* lines 1063 (1067 when the test fails) and 171 (180)
B_Test ==
    /\ WaitTest
    /\ bPc' = IF bPc = "test"
              THEN IF PywinautoOperation_wait_until_cond(now, wStart, wTimeout)
                   THEN "poll" ELSE "TimedOut"
              ELSE bPc

\* lines 1064-1065 and 172-177: one call of the predicate, seen by both loops
B_Poll ==
    /\ wPc = "poll"
    /\ \E outcome \in OutcomesOf(wPred), d \in 0..wDurCap :
          /\ WaitPolled(outcome, d)
          /\ bPc' = IF bPc = "poll"
                    THEN PywinautoOperation_wait_until_after(outcome)
                    ELSE bPc

\* lines 1066 and 178
B_Sleep ==
    /\ WaitSleep
    /\ bPc' = IF bPc = "sleep" THEN "test" ELSE bPc

InitBothLoops ==
    /\ now \in WaitCallTimes
    /\ nTicks = 0
    /\ IdleStore
    /\ IdleSvc
    /\ IdleFactory
    /\ IdleLocator
    /\ IdleDpi
    /\ aLast = NoAction
    /\ IdleApp
    /\ IdleKey
    /\ IdleLib
    /\ InitWaitWith(0..MaxTimeout, 1..MaxInterval, WaitPreds)
    /\ bPc = "start"

NextBothLoops ==
    \/ B_Start /\ UNCHANGED <<nTicks, storeVars, svcVars, factVars, locVars, dpiVars,
                              aLast, appVars, keyVars, libVars>>
    \/ B_Test /\ UNCHANGED <<nTicks, storeVars, svcVars, factVars, locVars, dpiVars,
                             aLast, appVars, keyVars, libVars>>
    \/ B_Poll /\ UNCHANGED <<nTicks, storeVars, svcVars, factVars, locVars, dpiVars,
                             aLast, appVars, keyVars, libVars>>
    \/ B_Sleep /\ UNCHANGED <<nTicks, storeVars, svcVars, factVars, locVars, dpiVars,
                              aLast, appVars, keyVars, libVars>>

SpecBothLoops == InitBothLoops /\ [][NextBothLoops]_vars

\* C30: the two polling loops agree.  No exception leaves
\* PywinautoOperation.wait_until, and once both calls have ended they have
\* returned the same boolean: both True or both False.
C30_LoopsAgree ==
    /\ bPc # "Raised"
    /\ (bPc \in WaitTerminal /\ wPc \in WaitTerminal) => (bPc = wPc)

====
